---------------------------- MODULE Spec2Model ----------------------------
(***************************************************************************)
(* A model of the request handlers of the LLM chat application:            *)
(*   - the password-reset handlers (forgot-password, reset-password),      *)
(*   - the completions handler with its tool-call protocol,                *)
(*   - the chat / message / prompt / comment / upload handlers,            *)
(*   - the file-serving route.                                             *)
(* The password-reset and completions handlers are cut at their awaits:    *)
(* one action per stretch of code between two awaits that touch shared     *)
(* state (the database, the LLM gateway, a tool server).  Each of the      *)
(* other handlers is one action, with an input that names the awaited      *)
(* call that throws, if any.                                               *)
(***************************************************************************)
EXTENDS Integers, Sequences, FiniteSets, TLC

(***************************************************************************)
(* Bounds of the model.                                                    *)
(***************************************************************************)
MaxForgot == 2
MaxConfirm == 2
MaxTime == 2
\* The rows the database may come to hold on top of the initial ones.
MaxNewRows == 2
\* The longest file name requested that is not the name of a stored file.
MaxNameLen == 3
\* The requests that write which the chat, prompt, comment and upload handlers take.
MaxApiWrites == 1
\* The lines of a reply handed to the tool-call extraction.
MaxLines == 3
\* The items of a content array handed to getContentAsString.
MaxParts == 3
\* The messages of a list handed to transformMessagesForGemini.
MaxMessages == 2
\* The lookups of a tool-server client that are started.
MaxLookups == 3
\* The submits of the chat input form.
MaxSubmits == 4

(***************************************************************************)
(* Program constants.                                                      *)
(***************************************************************************)
\* expires.setHours(expires.getHours() + 1): a token lives one hour; the
\* clock of the model counts hours.
TokenLifetimeHours == 1
\* password.length < 8 is rejected.
MinPasswordLength == 8
\* The longest title taken over unshortened from a message.
TitleLength == 50

NULL == "null"

VARIABLES
    \* ---- password reset: database tables and clock
    passwordHash,          \* user.passwordHash, per user id
    passwordResetTokens,   \* the passwordResetToken table: a set of rows
    now,                   \* new Date(), in hours
    tokenSeq,              \* number of tokens generated so far (crypto.randomBytes)
    forgotReq,             \* the forgot-password requests, each with its position
    confirmReq,            \* the reset-password (confirm) requests
    applied,               \* per confirm request: the writes of its transaction
                           \* that have taken effect in the database
    \* ---- chat application: database tables
    chats,                 \* the chat table: rows [id, userId, title]
    messages,              \* the message table: rows [id, chatId, role, content]
    comments,              \* the comment table: rows [id, messageId, userId, aiResponse]
    prompts,               \* the prompt table: rows [id, userId, title]
    idSeq,                 \* number of rows created so far (cuid and createdAt)
    \* ---- completions
    env,                   \* process.env: the API key and the tool servers
    activeConnections,     \* the activeConnections map of the MCP client manager
    mcp,                   \* the same map with its clients, and the lookups in hand
    completion,            \* the completions request in hand, with its position
    \* ---- the other route handlers
    apiCall,               \* the request handled last, its response and its effects
    \* ---- file storage
    storage,               \* the files of the storage directory, with their birth times
    fileCall,              \* the file request handled last and its effects
    sweep,                 \* the cleanup request in hand, with its position
    \* ---- library functions
    fnCall,                \* the function applied last: its input and its result
    \* ---- the browser
    commentUi,             \* handleCreateComment of the message component
    chatUi                 \* the chat view: its state and its sends in hand

resetVars == <<passwordHash, passwordResetTokens, now, tokenSeq,
               forgotReq, confirmReq, applied>>

dbVars == <<chats, messages, comments, prompts, idSeq>>

compVars == <<env, activeConnections, completion>>

fileVars == <<storage, fileCall, sweep>>

\* Everything outside the password reset.
appVars == <<dbVars, compVars, mcp, apiCall, fileVars, fnCall, commentUi, chatUi>>

vars == <<resetVars, appVars>>

(***************************************************************************)
(* PASSWORD RESET                                                          *)
(***************************************************************************)
UserIds == {"ann", "bob"}

\* The user table's unique e-mail column.
UserEmail(u) == IF u = "ann" THEN "ann@x.nl" ELSE "bob@x.nl"

\* A request body's email field: absent, a string, or another JSON value.
EmailInputs ==
    { [type |-> "missing", text |-> ""],
      [type |-> "string",  text |-> " Ann@X.nl "],
      [type |-> "string",  text |-> "bob@x.nl"],
      [type |-> "string",  text |-> "zed@x.nl"],
      [type |-> "number",  text |-> "42"] }

\* JavaScript's !email
Falsy(e) == e.type = "missing" \/ (e.type = "string" /\ e.text = "")

\* email.toLowerCase().trim() on the strings of EmailInputs
NormalizeEmail(t) == IF t = " Ann@X.nl " THEN "ann@x.nl" ELSE t

\* prisma.user.findUnique({ where: { email } })
FindUserByEmail(t) ==
    IF \E u \in UserIds : UserEmail(u) = t
    THEN CHOOSE u \in UserIds : UserEmail(u) = t
    ELSE NULL

Passwords == {"", "short", "longpassword1", "longpassword2"}

PasswordLength(p) ==
    CASE p = "" -> 0
      [] p = "short" -> 5
      [] OTHER -> 13

\* bcrypt.hash(password, 10)
BcryptHash(p) == <<"bcrypt", p>>

GenericMessage == "If the email exists, a password reset link has been sent."
ServerError == "Something went wrong. Please try again later."

ForgotIds == 1..MaxForgot
ConfirmIds == 1..MaxConfirm
\* A confirm request presents any token value; no token has the value 0.
TokenInputs == 0..MaxForgot

IdleForgot ==
    [pc |-> "idle", email |-> NULL, user |-> NULL, resetToken |-> 0,
     expires |-> 0, emailResult |-> NULL, threw |-> NULL, status |-> 0,
     body |-> NULL]

IdleConfirm ==
    [pc |-> "idle", token |-> 0, password |-> NULL, tokenId |-> 0,
     userId |-> NULL, status |-> 0, body |-> NULL,
     expired |-> FALSE, deleteThrew |-> FALSE]

\* A finished request keeps its response and, for the properties below, the
\* user it resolved and the token it generated; its other locals are gone.
RespondForgot(f, st, b) ==
    [IdleForgot EXCEPT !.pc = "done", !.status = st, !.body = b,
                       !.user = forgotReq[f].user,
                       !.resetToken = forgotReq[f].resetToken]

\* The catch block of the forgot-password handler; threw names the exception.
ForgotCatch(f, exception) ==
    [RespondForgot(f, 500, ServerError) EXCEPT !.threw = exception]

\* A handler that tells the caller that the account does not exist.
NoUserResponseReveals(f) == RespondForgot(f, 404, "No account with that email")

\* The response of the forgot-password handler when no user has the e-mail.
NoUserResponse(f) == RespondForgot(f, 200, GenericMessage)

\* forgot-password: read the body, reject a missing e-mail.
ForgotStart(f, e) ==
    /\ forgotReq[f].pc = "idle"
    /\ \A g \in ForgotIds : g < f => forgotReq[g].pc # "idle"
    /\ forgotReq' = [forgotReq EXCEPT ![f] =
         IF Falsy(e)
         THEN RespondForgot(f, 400, "Email is required")
         ELSE [forgotReq[f] EXCEPT !.pc = "findUser", !.email = e]]
    /\ UNCHANGED <<passwordHash, passwordResetTokens, now, tokenSeq,
                   confirmReq, applied>>
    /\ UNCHANGED appVars

\* forgot-password: look the user up; generate the token and its expiry.
ForgotFindUser(f, dbOk) ==
    /\ forgotReq[f].pc = "findUser"
    /\ LET e == forgotReq[f].email
           u == FindUserByEmail(NormalizeEmail(e.text))
       IN IF e.type # "string"
          THEN \* email.toLowerCase is not a function
               /\ forgotReq' = [forgotReq EXCEPT ![f] = ForgotCatch(f, "TypeError")]
               /\ UNCHANGED tokenSeq
          ELSE IF ~dbOk
          THEN /\ forgotReq' = [forgotReq EXCEPT ![f] = ForgotCatch(f, "DbError")]
               /\ UNCHANGED tokenSeq
          ELSE IF u = NULL
          THEN /\ forgotReq' = [forgotReq EXCEPT ![f] = NoUserResponse(f)]
               /\ UNCHANGED tokenSeq
          ELSE /\ tokenSeq' = tokenSeq + 1
               /\ forgotReq' = [forgotReq EXCEPT ![f] =
                    [forgotReq[f] EXCEPT !.pc = "deleteMany", !.user = u,
                                         !.email = NULL,
                                         !.resetToken = tokenSeq + 1,
                                         !.expires = now + TokenLifetimeHours]]
    /\ UNCHANGED <<passwordHash, passwordResetTokens, now, confirmReq,
                   applied>>
    /\ UNCHANGED appVars

\* prisma.passwordResetToken.deleteMany({ where: { userId } })
DeleteManyTokens(u) == { t \in passwordResetTokens : t.userId # u }

\* forgot-password: delete the user's existing tokens.
ForgotDeleteMany(f, dbOk) ==
    /\ forgotReq[f].pc = "deleteMany"
    /\ IF dbOk
       THEN /\ passwordResetTokens' = DeleteManyTokens(forgotReq[f].user)
            /\ forgotReq' = [forgotReq EXCEPT ![f].pc = "create"]
       ELSE /\ forgotReq' = [forgotReq EXCEPT ![f] = ForgotCatch(f, "DbError")]
            /\ UNCHANGED passwordResetTokens
    /\ UNCHANGED <<passwordHash, now, tokenSeq, confirmReq, applied>>
    /\ UNCHANGED appVars

\* forgot-password: store the new token (used defaults to false).
ForgotCreate(f, dbOk) ==
    /\ forgotReq[f].pc = "create"
    /\ IF dbOk
       THEN /\ passwordResetTokens' = passwordResetTokens \cup
                 { [id |-> forgotReq[f].resetToken,
                    userId |-> forgotReq[f].user,
                    token |-> forgotReq[f].resetToken,
                    expires |-> forgotReq[f].expires,
                    used |-> FALSE] }
            /\ forgotReq' = [forgotReq EXCEPT ![f].pc = "send"]
       ELSE /\ forgotReq' = [forgotReq EXCEPT ![f] = ForgotCatch(f, "DbError")]
            /\ UNCHANGED passwordResetTokens
    /\ UNCHANGED <<passwordHash, now, tokenSeq, confirmReq, applied>>
    /\ UNCHANGED appVars

\* The response after sendPasswordResetEmail returned emailResult.
AfterEmailResponse(f, emailOk) ==
    [RespondForgot(f, 200, GenericMessage)
        EXCEPT !.emailResult = IF emailOk THEN "success" ELSE "failure"]

\* forgot-password: send the e-mail (sendPasswordResetEmail never throws: it
\* returns {success: false} instead) and answer.
ForgotSendEmail(f, emailOk) ==
    /\ forgotReq[f].pc = "send"
    /\ forgotReq' = [forgotReq EXCEPT ![f] = AfterEmailResponse(f, emailOk)]
    /\ UNCHANGED <<passwordHash, passwordResetTokens, now, tokenSeq, confirmReq,
                   applied>>
    /\ UNCHANGED appVars

\* A finished request keeps its response, the token it presented and whether
\* it found that token past its expiry time.
RespondConfirm(r, st, b) ==
    [IdleConfirm EXCEPT !.pc = "done", !.status = st, !.body = b,
                        !.token = confirmReq[r].token,
                        !.expired = confirmReq[r].expired]

\* reset-password: read the body, validate token and password.
ConfirmStart(r, tok, pw) ==
    /\ confirmReq[r].pc = "idle"
    /\ \A q \in ConfirmIds : q < r => confirmReq[q].pc # "idle"
    /\ confirmReq' = [confirmReq EXCEPT ![r] =
         IF tok = 0 \/ pw = ""
         THEN RespondConfirm(r, 400, "Token and password are required")
         ELSE IF PasswordLength(pw) < MinPasswordLength
         THEN RespondConfirm(r, 400, "Password must be at least 8 characters long")
         ELSE [confirmReq[r] EXCEPT !.pc = "find", !.token = tok, !.password = pw]]
    /\ UNCHANGED <<passwordHash, passwordResetTokens, now, tokenSeq,
                   forgotReq, applied>>
    /\ UNCHANGED appVars

\* A test of the expiry time that lets a token live one hour too long.
IsExpiredLate(t, time) == t.expires + 1 < time

\* resetToken.expires < new Date()
IsExpired(t, time) == t.expires < time

\* prisma.passwordResetToken.findUnique({ where: { token } })
FindToken(tok) == { t \in passwordResetTokens : t.token = tok }

\* reset-password: look the token up and check expiry and the used flag.
ConfirmFind(r, dbOk) ==
    /\ confirmReq[r].pc = "find"
    /\ LET found == FindToken(confirmReq[r].token)
       IN confirmReq' = [confirmReq EXCEPT ![r] =
            IF ~dbOk THEN RespondConfirm(r, 500, ServerError)
            ELSE IF found = {}
            THEN RespondConfirm(r, 400, "Invalid or expired reset token")
            ELSE LET t == CHOOSE x \in found : TRUE
                 IN IF IsExpired(t, now)
                    THEN [confirmReq[r] EXCEPT !.pc = "deleteExpired",
                                               !.tokenId = t.id,
                                               !.userId = t.userId,
                                               !.expired = t.expires < now]
                    ELSE IF t.used
                    THEN [RespondConfirm(r, 400,
                                         "This reset token has already been used")
                          EXCEPT !.expired = t.expires < now]
                    ELSE [confirmReq[r] EXCEPT !.pc = "transaction",
                                               !.tokenId = t.id,
                                               !.userId = t.userId,
                                               !.expired = t.expires < now]]
    /\ UNCHANGED <<passwordHash, passwordResetTokens, now, tokenSeq,
                   forgotReq, applied>>
    /\ UNCHANGED appVars

\* reset-password: delete the expired token and answer 400.  The delete
\* throws when the row is gone (record to delete does not exist).
ConfirmDeleteExpired(r, dbOk) ==
    /\ confirmReq[r].pc = "deleteExpired"
    /\ LET rows == { t \in passwordResetTokens : t.id = confirmReq[r].tokenId }
       IN IF dbOk /\ rows # {}
          THEN /\ passwordResetTokens' = passwordResetTokens \ rows
               /\ confirmReq' = [confirmReq EXCEPT ![r] =
                    RespondConfirm(r, 400,
                        "Reset token has expired. Please request a new one.")]
          ELSE /\ confirmReq' = [confirmReq EXCEPT ![r] =
                    [RespondConfirm(r, 500, ServerError)
                        EXCEPT !.deleteThrew = TRUE]]
               /\ UNCHANGED passwordResetTokens
    /\ UNCHANGED <<passwordHash, now, tokenSeq, forgotReq, applied>>
    /\ UNCHANGED appVars

\* A transaction that does not roll back: the first write stays when the
\* second statement fails.
TransactionWritesNoRollback(failAt) ==
    CASE failAt = 0 -> {"passwordHash", "used"}
      [] failAt = 1 -> {}
      [] OTHER -> {"passwordHash"}

\* prisma.$transaction([user.update, passwordResetToken.update]): the writes
\* that take effect, given which statement (0: none, 1, 2) fails.
TransactionWrites(failAt) ==
    IF failAt = 0 THEN {"passwordHash", "used"} ELSE {}

\* reset-password: hash the password, then update the user and mark the token
\* used.  The token update throws when the row is gone.
ConfirmTransaction(r, dbFail) ==
    /\ confirmReq[r].pc = "transaction"
    /\ LET rows == { t \in passwordResetTokens : t.id = confirmReq[r].tokenId }
           failAt == IF dbFail # 0 THEN dbFail
                     ELSE IF rows = {} THEN 2 ELSE 0
           writes == TransactionWrites(failAt)
       IN /\ passwordHash' =
               IF "passwordHash" \in writes
               THEN [passwordHash EXCEPT ![confirmReq[r].userId] =
                                           BcryptHash(confirmReq[r].password)]
               ELSE passwordHash
          /\ passwordResetTokens' =
               IF "used" \in writes
               THEN (passwordResetTokens \ rows) \cup
                      { [t EXCEPT !.used = TRUE] : t \in rows }
               ELSE passwordResetTokens
          /\ applied' = [applied EXCEPT ![r] = [failAt |-> failAt, writes |-> writes]]
          /\ confirmReq' = [confirmReq EXCEPT ![r] =
               IF failAt = 0
               THEN RespondConfirm(r, 200, "Password has been reset successfully")
               ELSE RespondConfirm(r, 500, ServerError)]
    /\ UNCHANGED <<now, tokenSeq, forgotReq>>
    /\ UNCHANGED appVars

\* Time passes.
Tick ==
    /\ now < MaxTime
    /\ now' = now + 1
    /\ UNCHANGED <<passwordHash, passwordResetTokens, tokenSeq,
                   forgotReq, confirmReq, applied>>
    /\ UNCHANGED appVars


(***************************************************************************)
(* TOOL-CALL TEXT PROTOCOL                                                 *)
(* A text is a sequence of tokens, each standing for a fixed piece of      *)
(* text:  "T" is TOOL_CALL:   "." is a dot   "s" a space   "n" a newline   *)
(* "{" and "}" are braces   "a" is the text "k":1 (a name when it stands   *)
(* before the arguments, a JSON member inside braces)   "k" is the text    *)
(* "k": (the key of a member whose value follows)   "x" is a letter        *)
(* that is not valid JSON, "X" its capital, and "L" a run of fifty         *)
(* letters.                                                                *)
(***************************************************************************)
Tokens == {"T", ".", "s", "n", "{", "}", "a", "k", "x", "X", "L"}

IsSpace(c) == c \in {"s", "n"}

\* The least index in lo..Len(t) whose token satisfies Stop, or Len(t) + 1.
RECURSIVE ScanTo(_, _, _)
ScanTo(t, lo, stop) ==
    IF lo > Len(t) THEN Len(t) + 1
    ELSE IF t[lo] \in stop THEN lo
    ELSE ScanTo(t, lo + 1, stop)

\* The least index in lo..Len(t) whose token is not in skip, or Len(t) + 1.
RECURSIVE SkipOver(_, _, _)
SkipOver(t, lo, skip) ==
    IF lo > Len(t) THEN Len(t) + 1
    ELSE IF t[lo] \notin skip THEN lo
    ELSE SkipOver(t, lo + 1, skip)

\* One attempt of
\*   /TOOL_CALL:\s*([^.]+)\.([^\s]+)\s+(\{[^}]*\}|\{[^}]*\{[^}]*\}[^}]*\})/gs
\* anchored at index i.  The quantifiers are greedy and every class excludes
\* the token that must follow it, so backtracking changes the outcome in one
\* place only: \s* gives back its last space when nothing else is left for
\* ([^.]+).  The first alternative of the last group ends at the first "}"
\* and nothing follows the group, so the second alternative is never taken.
MatchAt(t, i) ==
    LET afterT == i + 1
        ws     == SkipOver(t, afterT, {"s", "n"})
        dot    == ScanTo(t, afterT, {"."})
        g1from == IF ws < dot THEN ws ELSE dot - 1
        g2from == dot + 1
        g2to   == ScanTo(t, g2from, {"s", "n"})
        brace  == SkipOver(t, g2to, {"s", "n"})
        close  == ScanTo(t, brace, {"}"})
    IN IF /\ i <= Len(t) /\ t[i] = "T"
          /\ dot <= Len(t) /\ dot > afterT
          /\ g2to > g2from /\ g2to <= Len(t)
          /\ brace > g2to /\ brace <= Len(t) /\ t[brace] = "{"
          /\ close <= Len(t)
       THEN [ok |-> TRUE, start |-> i, end |-> close,
             serverName |-> SubSeq(t, g1from, dot - 1),
             toolName |-> SubSeq(t, g2from, g2to - 1),
             argsJson |-> SubSeq(t, brace, close)]
       ELSE [ok |-> FALSE]

\* String.prototype.trim on a token sequence.
RECURSIVE Trim(_)
Trim(t) ==
    IF t = <<>> THEN t
    ELSE IF IsSpace(Head(t)) THEN Trim(Tail(t))
    ELSE IF IsSpace(t[Len(t)]) THEN Trim(SubSeq(t, 1, Len(t) - 1))
    ELSE t

\* The text without its spaces and newlines.
RECURSIVE Squeeze(_)
Squeeze(t) ==
    IF t = <<>> THEN t
    ELSE IF IsSpace(Head(t)) THEN Squeeze(Tail(t))
    ELSE <<Head(t)>> \o Squeeze(Tail(t))

\* Whether JSON.parse accepts the text: an object that is empty, holds the
\* one member "k":1, or holds one member "k" whose value is such an object.
JsonParses(t) ==
    Squeeze(t) \in { <<"{", "}">>, <<"{", "a", "}">>,
                     <<"{", "k", "{", "}", "}">>,
                     <<"{", "k", "{", "a", "}", "}">> }

\* argsJson.match(/\{[\s\S]*\}/): from the first "{" to the last "}".
RECURSIVE LastIndexOf(_, _, _)
LastIndexOf(t, c, hi) ==
    IF hi = 0 THEN 0
    ELSE IF t[hi] = c THEN hi
    ELSE LastIndexOf(t, c, hi - 1)

LooseJson(t) ==
    LET open == ScanTo(t, 1, {"{"})
        last == LastIndexOf(t, "}", Len(t))
    IN IF open <= Len(t) /\ last > open THEN SubSeq(t, open, last) ELSE <<>>

\* The try block of parseToolCalls: JSON.parse, then the looser scan.
ArgsParse(argsJson) ==
    JsonParses(argsJson) \/ JsonParses(LooseJson(argsJson))

\* parseToolCalls: the tool calls of the matches, from index `from` on; a
\* match whose arguments do not parse is skipped.
RECURSIVE ParseFrom(_, _)
ParseFrom(t, from) ==
    IF from > Len(t) THEN <<>>
    ELSE LET m == MatchAt(t, from)
         IN IF ~m.ok THEN ParseFrom(t, from + 1)
            ELSE (IF ArgsParse(m.argsJson)
                  THEN << [serverName |-> Trim(m.serverName),
                           toolName |-> Trim(m.toolName),
                           arguments |-> Squeeze(m.argsJson)] >>
                  ELSE <<>>)
                 \o ParseFrom(t, m.end + 1)

ParseToolCalls(t) == ParseFrom(t, 1)

\* assistantContent.replace(/TOOL_CALL:.*?(\n|$)/g, ''): without the s and m
\* flags the dot stops at a newline and $ is the end of the text.
RECURSIVE StripFrom(_, _)
StripFrom(t, from) ==
    IF from > Len(t) THEN <<>>
    ELSE IF t[from] = "T"
    THEN StripFrom(t, ScanTo(t, from, {"n"}) + 1)
    ELSE <<t[from]>> \o StripFrom(t, from + 1)

\* The cleaned draft of handleToolCalls.
CleanedContent(t) == Trim(StripFrom(t, 1))

(***************************************************************************)
(* MCP CLIENT MANAGER                                                      *)
(***************************************************************************)
\* String.prototype.toLowerCase on a text.
ToLowerCase(t) ==
    [i \in 1..Len(t) |-> IF t[i] = "X" THEN "x"
                         ELSE IF t[i] = "T" THEN "t" ELSE t[i]]

\* The environments: with or without the gateway key, with or without the
\* one tool server, which getMcpServerConfigs names in lower case.
Envs == [apiKey : BOOLEAN, mcpServers : { {}, { <<"x">> } }]

\* configs.find(c => c.name.toLowerCase() === toolCall.serverName.toLowerCase()):
\* the configurations the call can mean (none or one).
FindConfig(serverName) ==
    { c \in env.mcpServers : ToLowerCase(c) = ToLowerCase(serverName) }

\* getMcpClient, run without another lookup in between: a stored connection
\* that answers the probe is reused; otherwise it is dropped and a new one is
\* connected and stored, or the connect error propagates.
GetMcpClient(conns, name, probeOk, connectOk) ==
    IF name \in conns /\ probeOk THEN [ok |-> TRUE, conns |-> conns]
    ELSE IF connectOk THEN [ok |-> TRUE, conns |-> conns \cup {name}]
    ELSE [ok |-> FALSE, conns |-> conns \ {name}]

(***************************************************************************)
(* getMcpClient under lookups that overlap.  The function is cut at its    *)
(* two awaits, the probe client.listTools() and client.connect(transport), *)
(* so that another lookup can run between has() and set().  The map holds  *)
(* one client per server name; client.connect spawns the process of the    *)
(* server, and nothing in the manager closes a client that a lookup drops. *)
(***************************************************************************)
\* The lookups that can be in hand at once.
LookupIds == {1, 2}

\* The names of the configured tool servers.
McpServerNames == { <<"x">>, <<"a">> }

\* No client.
NoClient == 0

IdleLookup == [pc |-> "idle", name |-> <<>>, held |-> NoClient, first |-> FALSE,
               probeFailed |-> FALSE, attempts |-> 0, result |-> NoClient,
               error |-> FALSE]

IdleMcp == [conns |-> {}, spawned |-> {}, running |-> {}, probeFailures |-> {},
            started |-> 0, lookups |-> [l \in LookupIds |-> IdleLookup]]

\* activeConnections.get(name): the entries of the map under a name.
EntriesOf(conns, name) == { e \in conns : e.name = name }

\* activeConnections.has(config.name) and get: lines 32-33.
McpLookupStart(l, name) ==
    /\ mcp.lookups[l].pc \in {"idle", "done"}
    /\ mcp.started < MaxLookups
    /\ LET entries == EntriesOf(mcp.conns, name)
       IN mcp' = [mcp EXCEPT
            !.started = @ + 1,
            !.lookups[l] =
               IF entries = {}
               THEN [IdleLookup EXCEPT !.pc = "connecting", !.name = name,
                                       !.first = TRUE, !.attempts = 1]
               ELSE [IdleLookup EXCEPT !.pc = "probing", !.name = name,
                                       !.held = (CHOOSE e \in entries : TRUE).client]]
    /\ UNCHANGED <<resetVars, chatUi, dbVars, compVars, apiCall, fileVars, fnCall,
                   commentUi>>

\* The probe settles: the client is returned, or the entry under the name is
\* deleted and the lookup goes on to connect (lines 35-72).
McpProbeSettled(l, ok) ==
    /\ mcp.lookups[l].pc = "probing"
    /\ ok => mcp.lookups[l].held \in mcp.running
    /\ mcp' = IF ok
              THEN [mcp EXCEPT !.lookups[l].pc = "done",
                               !.lookups[l].result = mcp.lookups[l].held]
              ELSE [mcp EXCEPT !.conns = @ \ EntriesOf(@, mcp.lookups[l].name),
                               !.probeFailures = @ \cup {mcp.lookups[l].name},
                               !.lookups[l].pc = "connecting",
                               !.lookups[l].probeFailed = TRUE,
                               !.lookups[l].attempts = @ + 1]
    /\ UNCHANGED <<resetVars, chatUi, dbVars, compVars, apiCall, fileVars, fnCall,
                   commentUi>>

\* client.connect settles: the new client is stored under the name, in the
\* place of whatever is stored there, and returned; or the error propagates
\* (lines 72-80).
McpConnectSettled(l, ok) ==
    /\ mcp.lookups[l].pc = "connecting"
    /\ LET name == mcp.lookups[l].name
           client == Cardinality(mcp.spawned) + 1
       IN mcp' = IF ok
                 THEN [mcp EXCEPT
                         !.spawned = @ \cup {[name |-> name, client |-> client]},
                         !.running = @ \cup {client},
                         !.conns = (@ \ EntriesOf(@, name))
                                      \cup {[name |-> name, client |-> client]},
                         !.lookups[l].pc = "done",
                         !.lookups[l].result = client]
                 ELSE [mcp EXCEPT !.lookups[l].pc = "done",
                                  !.lookups[l].error = TRUE]
    /\ UNCHANGED <<resetVars, chatUi, dbVars, compVars, apiCall, fileVars, fnCall,
                   commentUi>>

\* The process of a tool server exits.
McpProcessExits(client) ==
    /\ client \in mcp.running
    /\ mcp' = [mcp EXCEPT !.running = @ \ {client}]
    /\ UNCHANGED <<resetVars, chatUi, dbVars, compVars, apiCall, fileVars, fnCall,
                   commentUi>>

(***************************************************************************)
(* COMPLETIONS: POST /api/completions                                      *)
(***************************************************************************)
\* The number of characters of a token and of a text.
TokenLength(c) ==
    IF c = "T" THEN 10 ELSE IF c = "a" THEN 5 ELSE IF c = "k" THEN 4
    ELSE IF c = "L" THEN 50 ELSE 1

RECURSIVE TextLength(_)
TextLength(t) == IF t = <<>> THEN 0 ELSE TokenLength(Head(t)) + TextLength(Tail(t))

\* t.substring(0, n), for a text in which character n ends a token.
RECURSIVE Substring(_, _)
Substring(t, n) ==
    IF t = <<>> \/ TokenLength(Head(t)) > n THEN <<>>
    ELSE <<Head(t)>> \o Substring(Tail(t), n - TokenLength(Head(t)))

\* The title saveMessagesToDatabase derives from a user message.
TitleOf(t) ==
    IF TextLength(t) > TitleLength
    THEN Substring(t, TitleLength) \o <<".", ".", ".">>
    ELSE t

\* The rows of the initial database, and the ids that may be given out.
InitialRows == 8

MaxRows == InitialRows + MaxNewRows

\* A chat without a title (null, which the handlers treat like '').
NoTitle == <<>>

\* The texts of user messages: empty, short, and longer than a title.
UserTexts == { <<>>, <<"x">>, <<"L", "x">> }

NoMessage == [role |-> "none", content |-> <<>>]

\* The request bodies: not JSON, without a messages array, with an empty
\* messages array, or with messages of which `last` is the last.
CompletionBodies ==
    { [kind |-> "unparsable", last |-> NoMessage],
      [kind |-> "invalid", last |-> NoMessage],
      [kind |-> "ok", last |-> NoMessage],
      [kind |-> "ok", last |-> [role |-> "assistant", content |-> <<"x">>]] }
    \cup { [kind |-> "ok", last |-> [role |-> "user", content |-> t]] : t \in UserTexts }

\* No id: a request that names no chat.
NoId == 0

\* An id that no row has.
UnknownId == 99

\* The chatId of a completions request: none, ann's chat, bob's chat, no chat.
ChatIdInputs == {NoId, 1, 2, UnknownId}

\* Replies of the model to the first request.
DraftReplies ==
    { <<>>,
      <<"x">>,
      <<"x", "n", "T", "s", "x", ".", "x", "s", "{", "a", "}">>,
      <<"T", "s", "X", ".", "x", "s", "{", "}", "n",
        "T", "s", "a", ".", "x", "s", "{", "a", "}", "n", "x">>,
      <<"T", "s", "a", ".", "x", "s", "{", "a", "}", "n",
        "T", "s", "x", ".", "x", "s", "{", "}">>,
      <<"T", "s", "x", ".", "x", "s", "{", "n", "a", "n", "}">>,
      <<"T", "s", "x", ".", "x", "s", "{", "x", "}">> }

\* Replies of the model to the summary request.
SummaryReplies == { <<>>, <<"x", "x">> }

\* What openRouter.chat.send can do: throw, resolve to something without
\* choices[0].message, or resolve to a reply with string content.
GatewayOutcomes(replies) ==
    { [kind |-> "throw", content |-> <<>>], [kind |-> "malformed", content |-> <<>>] }
    \cup { [kind |-> "reply", content |-> r] : r \in replies }

IdleCompletion ==
    [pc |-> "idle", session |-> NULL, chatId |-> NoId, last |-> NoMessage,
     commentsRead |-> {}, advertised |-> FALSE,
     draft |-> <<>>, toolCalls |-> <<>>, toolResults |-> <<>>,
     toolLog |-> <<>>, gatewayLog |-> <<>>, steps |-> <<>>, chatTitle |-> NoTitle,
     saveFailed |-> FALSE, status |-> 0, error |-> "", content |-> <<>>]

\* NextResponse.json(..., { status }) with an error body.
CompletionError(rec, st, err) ==
    [rec EXCEPT !.pc = "done", !.status = st, !.error = err]

\* The catch block of POST: 500 with the message of the error.
CompletionCatch(rec, err) == CompletionError(rec, 500, err)

\* The success response: the assistant message with the final content.
CompletionSuccess(rec) == [rec EXCEPT !.pc = "done", !.status = 200]

\* Everything the completions handler leaves alone.
outsideCompletions == <<resetVars, mcp, chatUi, prompts, apiCall, fileVars, fnCall, commentUi>>

\* POST up to the first database or network call: the key check, auth(),
\* request.json() and validateCompletionRequest.
CompletionsStart(session, chatId, body) ==
    /\ completion.pc \in {"idle", "done"}
    /\ idSeq + 2 <= MaxRows
    /\ LET rec == [IdleCompletion EXCEPT !.session = session, !.chatId = chatId,
                                         !.last = body.last]
       IN completion' =
            IF ~env.apiKey
            THEN CompletionError(rec, 500, "OpenRouter API key is not configured")
            ELSE IF body.kind = "unparsable"
            THEN CompletionCatch(rec, "Unexpected token")
            ELSE IF body.kind = "invalid"
            THEN CompletionError(rec, 400, "Messages array is required")
            ELSE [rec EXCEPT !.pc = IF chatId # NoId THEN "context" ELSE "enhance"]
    /\ UNCHANGED <<chats, messages, comments, idSeq, env, activeConnections>>
    /\ UNCHANGED outsideCompletions

\* The comments of the chat named in the request: comment.findMany with
\* where: { message: { chatId } }.
CommentsOfChat(chatId) ==
    { c \in comments :
        \E m \in messages : m.id = c.messageId /\ m.chatId = chatId }

\* getCommentsContext: the ids of the comments whose text goes into the
\* prompt; a database error leaves the context empty.
CompletionsContext(dbOk) ==
    /\ completion.pc = "context"
    /\ completion' = [completion EXCEPT
            !.pc = "enhance",
            !.commentsRead = IF dbOk
                             THEN { c.id : c \in CommentsOfChat(completion.chatId) }
                             ELSE {}]
    /\ UNCHANGED <<chats, messages, comments, idSeq, env, activeConnections>>
    /\ UNCHANGED outsideCompletions

\* enhanceMessagesWithMcp: the tools of the configured server are listed and
\* advertised in the system prompt; a server that cannot be reached or
\* listed is skipped.
CompletionsEnhance(probeOk, connectOk, listOk) ==
    /\ completion.pc = "enhance"
    /\ IF env.mcpServers = {}
       THEN /\ completion' = [completion EXCEPT !.pc = "send",
                                                 !.steps = Append(@, "enhance")]
            /\ UNCHANGED activeConnections
       ELSE LET name == CHOOSE c \in env.mcpServers : TRUE
                client == GetMcpClient(activeConnections, name, probeOk, connectOk)
            IN /\ activeConnections' = client.conns
               /\ completion' = [completion EXCEPT
                      !.pc = "send", !.advertised = client.ok /\ listOk,
                      !.steps = Append(@, "enhance")]
    /\ UNCHANGED <<chats, messages, comments, idSeq, env>>
    /\ UNCHANGED outsideCompletions

\* What follows once the final content is known: persist when the request
\* names a chat and carries a session, otherwise respond.
AfterReply(rec) ==
    IF rec.chatId # NoId /\ rec.session # NULL
    THEN [rec EXCEPT !.pc = "saveFind", !.steps = Append(@, "persist")]
    ELSE CompletionSuccess(rec)

\* The steps POST takes around the first send: transformMessagesForGemini
\* before it, and for a reply detectImagesInResponse, and for a reply that
\* is not empty handleToolCalls.
StepsOfSend(outcome) ==
    <<"transform", "send">>
       \o (IF outcome.kind = "reply" THEN <<"detect">> ELSE <<>>)
       \o (IF outcome.kind = "reply" /\ outcome.content # <<>> THEN <<"tools">> ELSE <<>>)

\* The first openRouter.chat.send and what POST does with its outcome, up to
\* the parsing of the tool calls in handleToolCalls.
CompletionsSend(outcome) ==
    /\ completion.pc = "send"
    /\ LET rec == [completion EXCEPT
                     !.gatewayLog = Append(@, [call |-> "initial", outcome |-> outcome]),
                     !.steps = @ \o StepsOfSend(outcome)]
           calls == ParseToolCalls(outcome.content)
       IN completion' =
            IF outcome.kind = "throw"
            THEN CompletionCatch(rec, "gateway error")
            ELSE IF outcome.kind = "malformed"
            THEN CompletionError(rec, 500,
                                 "Unexpected response structure from OpenRouter")
            ELSE IF outcome.content = <<>> \/ calls = <<>>
            THEN AfterReply([rec EXCEPT !.draft = outcome.content,
                                        !.content = outcome.content])
            ELSE [rec EXCEPT !.pc = "tools", !.draft = outcome.content,
                             !.content = outcome.content, !.toolCalls = calls]
    /\ UNCHANGED <<chats, messages, comments, idSeq, env, activeConnections>>
    /\ UNCHANGED outsideCompletions

\* The entry executeToolCalls pushes for one call.
ToolResult(found, clientOk, callOk) ==
    IF ~found THEN [success |-> FALSE, result |-> "", error |-> "Server not found"]
    ELSE IF ~clientOk THEN [success |-> FALSE, result |-> "", error |-> "connect failed"]
    ELSE IF ~callOk THEN [success |-> FALSE, result |-> "", error |-> "tool failed"]
    ELSE [success |-> TRUE, result |-> "tool output", error |-> ""]

\* A variant of AfterToolCall in which a failed call ends the request.
AfterToolCallAborts(rec, result) ==
    IF ~result.success THEN CompletionCatch(rec, result.error)
    ELSE [rec EXCEPT !.pc = IF Len(rec.toolResults) = Len(rec.toolCalls)
                            THEN "summary" ELSE "tools"]

\* A variant of AfterToolCall that gives a call that failed a second try.
AfterToolCallRetries(rec, result) ==
    LET i == Len(rec.toolResults)
        tries == { k \in 1..Len(rec.toolLog) : rec.toolLog[k].call = i }
    IN IF ~result.success /\ Cardinality(tries) = 1
       THEN [rec EXCEPT !.toolResults = SubSeq(@, 1, i - 1), !.pc = "tools"]
       ELSE [rec EXCEPT !.pc = IF i = Len(rec.toolCalls) THEN "summary" ELSE "tools"]

\* executeToolCalls after an entry is pushed: on to the next call, whatever
\* the entry says, and after the last one back to handleToolCalls.
AfterToolCall(rec, result) ==
    [rec EXCEPT !.pc = IF Len(rec.toolResults) = Len(rec.toolCalls)
                       THEN "summary" ELSE "tools"]

\* One pass of the loop of executeToolCalls: the next call is looked up,
\* and if its server is configured, callMcpTool is awaited inside the try.
CompletionsToolCall(probeOk, connectOk, callOk) ==
    /\ completion.pc = "tools"
    /\ LET i == Len(completion.toolResults) + 1
           config == FindConfig(completion.toolCalls[i].serverName)
           client == IF config = {}
                     THEN [ok |-> FALSE, conns |-> activeConnections]
                     ELSE GetMcpClient(activeConnections, CHOOSE c \in config : TRUE,
                                       probeOk, connectOk)
           result == ToolResult(config # {}, client.ok, callOk)
           rec == [completion EXCEPT
                     !.toolResults = Append(@, result),
                     !.toolLog = IF config # {}
                                 THEN Append(@, [call |-> i, connected |-> client.ok,
                                                 returned |-> callOk])
                                 ELSE @]
       IN /\ activeConnections' = client.conns
          /\ completion' = AfterToolCall(rec, result)
    /\ UNCHANGED <<chats, messages, comments, idSeq, env>>
    /\ UNCHANGED outsideCompletions

\* The second openRouter.chat.send of handleToolCalls throws: nothing in
\* handleToolCalls catches it, so it reaches the catch block of POST.
SummaryThrows(rec) == CompletionCatch(rec, "gateway error")

\* The second openRouter.chat.send of handleToolCalls and the rest of it.
CompletionsSummary(outcome) ==
    /\ completion.pc = "summary"
    /\ LET rec == [completion EXCEPT !.gatewayLog =
                                     Append(@, [call |-> "summary", outcome |-> outcome])]
       IN completion' =
            IF outcome.kind = "throw" THEN SummaryThrows(rec)
            ELSE IF outcome.kind = "malformed"
            THEN AfterReply([rec EXCEPT !.content = CleanedContent(rec.draft)])
            ELSE AfterReply([rec EXCEPT !.content = outcome.content])
    /\ UNCHANGED <<chats, messages, comments, idSeq, env, activeConnections>>
    /\ UNCHANGED outsideCompletions

\* A variant of SaveFailed that starts saveMessagesToDatabase over.
SaveFailedSavesAgain(rec) ==
    [rec EXCEPT !.pc = "saveFind", !.steps = Append(@, "persist")]

\* A variant of SaveFailed in which the database error escapes to POST.
SaveFailedPropagates(rec) == CompletionCatch([rec EXCEPT !.saveFailed = TRUE], "database error")

\* The catch block of saveMessagesToDatabase: the error is logged and POST
\* goes on to respond.
SaveFailed(rec) == CompletionSuccess([rec EXCEPT !.saveFailed = TRUE])

\* A variant of SaveFindChat that looks the chat up by its id alone.
SaveFindChatAnyOwner(dbOk) ==
    /\ completion.pc = "saveFind"
    /\ LET found == { c \in chats : c.id = completion.chatId }
       IN completion' =
            IF ~dbOk THEN SaveFailed(completion)
            ELSE IF found = {} THEN CompletionSuccess(completion)
            ELSE [completion EXCEPT
                    !.chatTitle = (CHOOSE c \in found : TRUE).title,
                    !.pc = IF completion.last.role = "user"
                           THEN "saveUser" ELSE "saveAssistant"]
    /\ UNCHANGED <<chats, messages, comments, idSeq, env, activeConnections>>
    /\ UNCHANGED outsideCompletions

\* saveMessagesToDatabase: chat.findFirst({ where: { id: chatId, userId } }).
SaveFindChat(dbOk) ==
    /\ completion.pc = "saveFind"
    /\ LET found == { c \in chats : c.id = completion.chatId
                                    /\ c.userId = completion.session }
       IN completion' =
            IF ~dbOk THEN SaveFailed(completion)
            ELSE IF found = {} THEN CompletionSuccess(completion)
            ELSE [completion EXCEPT
                    !.chatTitle = (CHOOSE c \in found : TRUE).title,
                    !.pc = IF completion.last.role = "user"
                           THEN "saveUser" ELSE "saveAssistant"]
    /\ UNCHANGED <<chats, messages, comments, idSeq, env, activeConnections>>
    /\ UNCHANGED outsideCompletions

\* message.create, which fails when the chat row is gone.
CreateMessage(chatId, role, content) ==
    messages \cup { [id |-> idSeq + 1, chatId |-> chatId, role |-> role,
                     content |-> content] }

\* saveMessagesToDatabase: the user message is created.
SaveUserMessage(dbOk) ==
    /\ completion.pc = "saveUser"
    /\ LET ok == dbOk /\ \E c \in chats : c.id = completion.chatId
           title == TitleOf(completion.last.content)
       IN IF ok
          THEN /\ messages' = CreateMessage(completion.chatId, "user",
                                            completion.last.content)
               /\ idSeq' = idSeq + 1
               /\ completion' = [completion EXCEPT
                     !.pc = IF completion.chatTitle = NoTitle /\ title # <<>>
                            THEN "saveTitle" ELSE "saveAssistant"]
          ELSE /\ completion' = SaveFailed(completion)
               /\ UNCHANGED <<messages, idSeq>>
    /\ UNCHANGED <<chats, comments, env, activeConnections>>
    /\ UNCHANGED outsideCompletions

\* saveMessagesToDatabase: chat.update({ where: { id }, data: { title } }).
SaveTitle(dbOk) ==
    /\ completion.pc = "saveTitle"
    /\ LET rows == { c \in chats : c.id = completion.chatId }
       IN IF dbOk /\ rows # {}
          THEN /\ chats' = (chats \ rows) \cup
                    { [c EXCEPT !.title = TitleOf(completion.last.content)] : c \in rows }
               /\ completion' = [completion EXCEPT !.pc = "saveAssistant"]
          ELSE /\ completion' = SaveFailed(completion)
               /\ UNCHANGED chats
    /\ UNCHANGED <<messages, comments, idSeq, env, activeConnections>>
    /\ UNCHANGED outsideCompletions

\* saveMessagesToDatabase: the assistant message is created; POST responds.
SaveAssistantMessage(dbOk) ==
    /\ completion.pc = "saveAssistant"
    /\ LET ok == dbOk /\ \E c \in chats : c.id = completion.chatId
       IN IF ok
          THEN /\ messages' = CreateMessage(completion.chatId, "assistant",
                                            completion.content)
               /\ idSeq' = idSeq + 1
               /\ completion' = CompletionSuccess(completion)
          ELSE /\ completion' = SaveFailed(completion)
               /\ UNCHANGED <<messages, idSeq>>
    /\ UNCHANGED <<chats, comments, env, activeConnections>>
    /\ UNCHANGED outsideCompletions

(***************************************************************************)
(* THE CHAT, MESSAGE, PROMPT, COMMENT AND UPLOAD HANDLERS                  *)
(* A handler is one action: its awaits touch rows that only requests of    *)
(* the same kind change, and each request is looked at by itself.  `fail`  *)
(* numbers the database, storage or gateway call of the handler that       *)
(* throws (0: none).  The effects of a request are the external calls it   *)
(* made, in order.                                                         *)
(***************************************************************************)
\* What auth() resolves to: no session, or the session of ann; bob is the
\* other tenant.
Sessions == {NULL, "ann"}

IdsOf(rows) == { r.id : r \in rows }

\* The ids a request can name where the id of a row of `table` is expected:
\* the ids of its rows, and an id of no row.
IdInputs(table) == IdsOf(table) \cup {UnknownId}

\* The title and the content of a prompt: missing, blank, or a text.
ContentInputs ==
    { [type |-> "undefined", text |-> <<>>],
      [type |-> "string", text |-> <<"s">>],
      [type |-> "string", text |-> <<"x">>] }

\* The title of a chat in a request body.
TextInputs ==
    { [type |-> "undefined", text |-> <<>>],
      [type |-> "null", text |-> <<>>],
      [type |-> "number", text |-> <<>>],
      [type |-> "string", text |-> <<"s">>],
      [type |-> "string", text |-> <<"s", "x", "x", "s">>] }

IdleApiCall ==
    [handler |-> "none", session |-> NULL, named |-> NoId, status |-> 0,
     returned |-> {}, changed |-> {}, effects |-> <<>>, writes |-> 0]

\* The tables and the storage directory as they are.
Db == [chats |-> chats, messages |-> messages, comments |-> comments,
       prompts |-> prompts, idSeq |-> idSeq, storage |-> storage]

\* A response of a handler that has written nothing: its status, the ids of
\* the rows in its body and the external calls made.
Answer(st, returned, effects) ==
    [status |-> st, returned |-> returned, changed |-> {}, effects |-> effects,
     wrote |-> FALSE, db |-> Db]

\* A response of a handler that has written: also the rows written and the
\* tables afterwards.
Written(st, returned, changed, effects, db) ==
    [status |-> st, returned |-> returned, changed |-> changed,
     effects |-> effects, wrote |-> TRUE, db |-> db]

\* if (!session || !session.user?.id) return 401.
Unauthorized == Answer(401, {}, <<>>)

\* A handler has run: its response is on record and its writes are in place.
\* Requests that write are counted, and taken while the count is below its
\* bound.
Handle(h, session, named, res) ==
    /\ res.wrote => apiCall.writes < MaxApiWrites
    /\ apiCall' = [handler |-> h, session |-> session, named |-> named,
                   status |-> res.status, returned |-> res.returned,
                   changed |-> res.changed, effects |-> res.effects,
                   writes |-> apiCall.writes + (IF res.wrote THEN 1 ELSE 0)]
    /\ chats' = res.db.chats
    /\ messages' = res.db.messages
    /\ comments' = res.db.comments
    /\ prompts' = res.db.prompts
    /\ idSeq' = res.db.idSeq
    /\ storage' = res.db.storage
    /\ UNCHANGED <<resetVars, mcp, chatUi, compVars, fileCall, sweep, fnCall, commentUi>>

\* A cascade that stops at the messages.
CascadeOfMessagesOnly(ids) ==
    [chats |-> { c \in chats : c.id \in ids },
     messages |-> { m \in messages : m.chatId \in ids },
     comments |-> {}]

\* The rows that go when the chats `ids` are deleted: the chats, their
\* messages (onDelete: Cascade) and the comments on those messages
\* (comments_message_id_fkey, ON DELETE CASCADE).
CascadeOf(ids) ==
    LET ms == { m \in messages : m.chatId \in ids }
    IN [chats |-> { c \in chats : c.id \in ids },
        messages |-> ms,
        comments |-> { c \in comments : \E m \in ms : m.id = c.messageId }]

DeleteChats(ids) ==
    LET gone == CascadeOf(ids)
    IN [Db EXCEPT !.chats = chats \ gone.chats,
                  !.messages = messages \ gone.messages,
                  !.comments = comments \ gone.comments]

\* chat.findFirst({ where: { id, userId } }).
OwnChat(id, session) == { c \in chats : c.id = id /\ c.userId = session }

\* message.findFirst({ where: { id, chat: { userId } } }).
OwnMessage(id, session) ==
    { m \in messages : m.id = id /\ OwnChat(m.chatId, session) # {} }

\* GET /api/chats.
ChatsGet(session, fail) ==
    Handle("GET /api/chats", session, NoId,
        IF session = NULL THEN Unauthorized
        ELSE IF fail = 1 THEN Answer(500, {}, <<"db.read">>)
        ELSE Answer(200, IdsOf({ c \in chats : c.userId = session }), <<"db.read">>))

\* POST /api/chats: title || null is stored as it is.
ChatsPost(session, title, fail) ==
    /\ Handle("POST /api/chats", session, NoId,
        IF session = NULL THEN Unauthorized
        ELSE IF fail = 1 \/ title.type = "number"
        THEN Answer(500, {}, <<"db.write">>)
        ELSE Written(201, {idSeq + 1}, {idSeq + 1}, <<"db.write">>,
               [Db EXCEPT !.idSeq = idSeq + 1,
                          !.chats = chats \cup
                             { [id |-> idSeq + 1, userId |-> session,
                                title |-> title.text] }]))

\* DELETE /api/chats: chat.deleteMany({ where: { userId } }).
ChatsDeleteAll(session, fail) ==
    Handle("DELETE /api/chats", session, NoId,
        IF session = NULL THEN Unauthorized
        ELSE IF fail = 1 THEN Answer(500, {}, <<"db.write">>)
        ELSE LET ids == IdsOf({ c \in chats : c.userId = session })
                 gone == CascadeOf(ids)
             IN Written(200, {},
                        IdsOf(gone.chats) \cup IdsOf(gone.messages)
                            \cup IdsOf(gone.comments),
                        <<"db.write">>, DeleteChats(ids)))

\* DELETE /api/chats/[id].
ChatDelete(session, id, fail) ==
    Handle("DELETE /api/chats/[id]", session, id,
        IF session = NULL THEN Unauthorized
        ELSE IF fail = 1 THEN Answer(500, {}, <<"db.read">>)
        ELSE IF OwnChat(id, session) = {} THEN Answer(404, {}, <<"db.read">>)
        ELSE IF fail = 2 THEN Answer(500, {}, <<"db.read", "db.write">>)
        ELSE LET gone == CascadeOf({id})
             IN Written(200, {},
                        IdsOf(gone.chats) \cup IdsOf(gone.messages)
                            \cup IdsOf(gone.comments),
                        <<"db.read", "db.write">>, DeleteChats({id})))

\* PATCH /api/chats/[id]: the title is null or a string that is not blank.
ChatPatch(session, id, title, fail) ==
    Handle("PATCH /api/chats/[id]", session, id,
        IF session = NULL THEN Unauthorized
        ELSE IF title.type # "null"
                /\ (title.type # "string" \/ Trim(title.text) = <<>>)
        THEN Answer(400, {}, <<>>)
        ELSE IF fail = 1 THEN Answer(500, {}, <<"db.read">>)
        ELSE IF OwnChat(id, session) = {} THEN Answer(404, {}, <<"db.read">>)
        ELSE IF fail = 2 THEN Answer(500, {}, <<"db.read", "db.write">>)
        ELSE Written(200, {id}, {id}, <<"db.read", "db.write">>,
               [Db EXCEPT !.chats =
                  { IF c.id = id THEN [c EXCEPT !.title = Trim(title.text)] ELSE c :
                      c \in chats }]))

\* GET /api/chats/[id]/messages.
MessagesGet(session, id, fail) ==
    Handle("GET /api/chats/[id]/messages", session, id,
        IF session = NULL THEN Unauthorized
        ELSE IF fail = 1 THEN Answer(500, {}, <<"db.read">>)
        ELSE IF OwnChat(id, session) = {} THEN Answer(404, {}, <<"db.read">>)
        ELSE IF fail = 2 THEN Answer(500, {}, <<"db.read", "db.read">>)
        ELSE Answer(200, IdsOf({ m \in messages : m.chatId = id }),
                    <<"db.read", "db.read">>))

MessageRoles == {"user", "assistant", "bogus"}

\* POST /api/chats/[id]/messages: the message is created, and the title of
\* an untitled chat is set from a user message.
MessagesPost(session, id, role, content, fail) ==
    /\ Handle("POST /api/chats/[id]/messages", session, id,
        IF session = NULL THEN Unauthorized
        ELSE IF role = "bogus" \/ content = <<>> THEN Answer(400, {}, <<>>)
        ELSE IF fail = 1 THEN Answer(500, {}, <<"db.read">>)
        ELSE IF OwnChat(id, session) = {} THEN Answer(404, {}, <<"db.read">>)
        ELSE IF fail = 2 THEN Answer(500, {}, <<"db.read", "db.write">>)
        ELSE LET chat == CHOOSE c \in OwnChat(id, session) : TRUE
                 created == [Db EXCEPT !.idSeq = idSeq + 1,
                                       !.messages = CreateMessage(id, role, content)]
                 titled == [created EXCEPT !.chats =
                              { IF c.id = id THEN [c EXCEPT !.title = TitleOf(content)]
                                ELSE c : c \in chats }]
             IN IF role = "user" /\ chat.title = NoTitle
                THEN IF fail = 3
                     THEN Written(500, {}, {idSeq + 1},
                                  <<"db.read", "db.write", "db.write">>, created)
                     ELSE Written(201, {idSeq + 1}, {idSeq + 1, id},
                                  <<"db.read", "db.write", "db.write">>, titled)
                ELSE Written(201, {idSeq + 1}, {idSeq + 1},
                             <<"db.read", "db.write">>, created))

\* GET /api/prompts.
PromptsGet(session, fail) ==
    Handle("GET /api/prompts", session, NoId,
        IF session = NULL THEN Unauthorized
        ELSE IF fail = 1 THEN Answer(500, {}, <<"db.read">>)
        ELSE Answer(200, IdsOf({ q \in prompts : q.userId = session }), <<"db.read">>))

\* A body field that must be a string that is not blank.
Blank(field) == field.type # "string" \/ Trim(field.text) = <<>>

\* POST /api/prompts.
PromptsPost(session, title, content, fail) ==
    /\ Handle("POST /api/prompts", session, NoId,
        IF session = NULL THEN Unauthorized
        ELSE IF Blank(title) \/ Blank(content) THEN Answer(400, {}, <<>>)
        ELSE IF fail = 1 THEN Answer(500, {}, <<"db.write">>)
        ELSE Written(201, {idSeq + 1}, {idSeq + 1}, <<"db.write">>,
               [Db EXCEPT !.idSeq = idSeq + 1,
                          !.prompts = prompts \cup
                             { [id |-> idSeq + 1, userId |-> session,
                                title |-> Trim(title.text)] }]))

\* DELETE /api/prompts: prompt.deleteMany({ where: { userId } }).
PromptsDeleteAll(session, fail) ==
    Handle("DELETE /api/prompts", session, NoId,
        IF session = NULL THEN Unauthorized
        ELSE IF fail = 1 THEN Answer(500, {}, <<"db.write">>)
        ELSE LET own == { q \in prompts : q.userId = session }
             IN Written(200, {}, IdsOf(own), <<"db.write">>,
                        [Db EXCEPT !.prompts = prompts \ own]))

\* prompt.findFirst({ where: { id, userId } }).
OwnPrompt(id, session) == { q \in prompts : q.id = id /\ q.userId = session }

\* DELETE /api/prompts/[id].
PromptDelete(session, id, fail) ==
    Handle("DELETE /api/prompts/[id]", session, id,
        IF session = NULL THEN Unauthorized
        ELSE IF fail = 1 THEN Answer(500, {}, <<"db.read">>)
        ELSE IF OwnPrompt(id, session) = {} THEN Answer(404, {}, <<"db.read">>)
        ELSE IF fail = 2 THEN Answer(500, {}, <<"db.read", "db.write">>)
        ELSE Written(200, {}, {id}, <<"db.read", "db.write">>,
               [Db EXCEPT !.prompts = prompts \ OwnPrompt(id, session)]))

\* PATCH /api/prompts/[id]: the fields are validated after the lookup.
PromptPatch(session, id, title, content, fail) ==
    Handle("PATCH /api/prompts/[id]", session, id,
        IF session = NULL THEN Unauthorized
        ELSE IF fail = 1 THEN Answer(500, {}, <<"db.read">>)
        ELSE IF OwnPrompt(id, session) = {} THEN Answer(404, {}, <<"db.read">>)
        ELSE IF (title.type # "undefined" /\ Blank(title))
                \/ (content.type # "undefined" /\ Blank(content))
                \/ (title.type = "undefined" /\ content.type = "undefined")
        THEN Answer(400, {}, <<"db.read">>)
        ELSE IF fail = 2 THEN Answer(500, {}, <<"db.read", "db.write">>)
        ELSE Written(200, {id}, {id}, <<"db.read", "db.write">>,
               [Db EXCEPT !.prompts =
                  { IF q.id = id /\ title.type # "undefined"
                    THEN [q EXCEPT !.title = Trim(title.text)] ELSE q :
                      q \in prompts }]))

\* GET /api/comments?messageId=...
CommentsGet(session, messageId, fail) ==
    Handle("GET /api/comments", session, messageId,
        IF session = NULL THEN Unauthorized
        ELSE IF messageId = NoId THEN Answer(400, {}, <<>>)
        ELSE IF fail = 1 THEN Answer(500, {}, <<"db.read">>)
        ELSE IF OwnMessage(messageId, session) = {}
        THEN Answer(404, {}, <<"db.read">>)
        ELSE IF fail = 2 THEN Answer(500, {}, <<"db.read", "db.read">>)
        ELSE Answer(200, IdsOf({ c \in comments : c.messageId = messageId }),
                    <<"db.read", "db.read">>))

\* POST /api/comments; `valid` says whether the fields pass the checks.
CommentsPost(session, messageId, valid, fail) ==
    /\ Handle("POST /api/comments", session, messageId,
        IF session = NULL THEN Unauthorized
        ELSE IF messageId = NoId \/ ~valid THEN Answer(400, {}, <<>>)
        ELSE IF fail = 1 THEN Answer(500, {}, <<"db.read">>)
        ELSE IF OwnMessage(messageId, session) = {}
        THEN Answer(404, {}, <<"db.read">>)
        ELSE IF fail = 2 THEN Answer(500, {}, <<"db.read", "db.write">>)
        ELSE Written(200, {idSeq + 1}, {idSeq + 1}, <<"db.read", "db.write">>,
               [Db EXCEPT !.idSeq = idSeq + 1,
                          !.comments = comments \cup
                             { [id |-> idSeq + 1, messageId |-> messageId,
                                userId |-> session, aiResponse |-> <<>>] }]))

\* comment.findFirst({ where: { id, userId } }).
OwnComment(id, session) == { c \in comments : c.id = id /\ c.userId = session }

\* POST /api/comments/[id]/reply: the comment and the messages of its chat
\* go to the gateway, and the answer is stored on the comment.
CommentReply(session, id, outcome, fail) ==
    Handle("POST /api/comments/[id]/reply", session, id,
        IF session = NULL THEN Unauthorized
        ELSE IF ~env.apiKey THEN Answer(500, {}, <<>>)
        ELSE IF fail = 1 THEN Answer(500, {}, <<"db.read">>)
        ELSE IF OwnComment(id, session) = {} THEN Answer(404, {}, <<"db.read">>)
        ELSE IF fail = 2 THEN Answer(500, {}, <<"db.read", "db.read">>)
        ELSE IF outcome.kind # "reply"
        THEN Answer(500, {}, <<"db.read", "db.read", "llm">>)
        ELSE IF fail = 3
        THEN Answer(500, {}, <<"db.read", "db.read", "llm", "db.write">>)
        ELSE Written(200, {id}, {id}, <<"db.read", "db.read", "llm", "db.write">>,
               [Db EXCEPT !.comments =
                  { IF c.id = id THEN [c EXCEPT !.aiResponse = outcome.content]
                    ELSE c : c \in comments }]))

(***************************************************************************)
(* FILE STORAGE: POST /api/upload and GET /api/files/[filename]            *)
(* A file name is a sequence of characters.                                *)
(***************************************************************************)
\* The characters of a requested file name.
NameChars == {".", "/", "\\", "a"}

\* [a-zA-Z0-9-_], as far as the names of the model go.
WordChars == {"a", "b", "_"}

\* generateFilename: the sanitized name without its extension, a stamp that
\* stands for the timestamp and the random part, and the extension.
GenerateFilename(original, stamp) ==
    LET dot == LastIndexOf(original, ".", Len(original))
        extension == IF dot = 0 THEN original
                     ELSE SubSeq(original, dot + 1, Len(original))
        hasExt == /\ dot > 0 /\ dot < Len(original)
                  /\ \A k \in (dot + 1)..Len(original) : original[k] # "/"
        nameWithoutExt == IF hasExt THEN SubSeq(original, 1, dot - 1) ELSE original
        sanitizedName == [k \in 1..Len(nameWithoutExt) |->
                            IF nameWithoutExt[k] \in WordChars
                            THEN nameWithoutExt[k] ELSE "_"]
    IN sanitizedName \o <<"_", ToString(stamp), ".">> \o extension

\* String.prototype.includes.
Includes(t, sub) ==
    \E k \in 1..(Len(t) - Len(sub) + 1) : SubSeq(t, k, k + Len(sub) - 1) = sub

\* The files a client can send: none, one over the size limit, one of a type
\* that is not allowed, or an acceptable one with its name.
UploadInputs ==
    { [kind |-> "none", name |-> <<>>],
      [kind |-> "large", name |-> <<"a">>],
      [kind |-> "type", name |-> <<"a">>],
      [kind |-> "ok", name |-> <<"a", ".", "b">>],
      [kind |-> "ok", name |-> <<"a", "/", "b">>] }

\* A variant of Upload that does not look at the session.
UploadWithoutAuth(session, file, fail) ==
    /\ Handle("POST /api/upload", session, NoId,
        IF file.kind # "ok" THEN Answer(400, {}, <<>>)
        ELSE IF fail = 1 \/ Includes(GenerateFilename(file.name, idSeq + 1), <<"/">>)
        THEN Answer(500, {}, <<"storage.read", "storage.write">>)
        ELSE Written(200, {}, {}, <<"storage.read", "storage.write">>,
               [Db EXCEPT !.idSeq = idSeq + 1,
                          !.storage = storage \cup
                             { [name |-> GenerateFilename(file.name, idSeq + 1),
                                birthtime |-> now] }]))

\* POST /api/upload: the checks and uploadFile (ensureStorageDir, writeFile);
\* writeFile fails on a name that points into a directory that is not there.
Upload(session, file, fail) ==
    /\ Handle("POST /api/upload", session, NoId,
        IF session = NULL THEN Unauthorized
        ELSE IF file.kind # "ok" THEN Answer(400, {}, <<>>)
        ELSE IF fail = 1 \/ Includes(GenerateFilename(file.name, idSeq + 1), <<"/">>)
        THEN Answer(500, {}, <<"storage.read", "storage.write">>)
        ELSE Written(200, {}, {}, <<"storage.read", "storage.write">>,
               [Db EXCEPT !.idSeq = idSeq + 1,
                          !.storage = storage \cup
                             { [name |-> GenerateFilename(file.name, idSeq + 1),
                                birthtime |-> now] }]))

\* readdir of the storage directory: the names of its files.
FileNames == { f.name : f \in storage }

\* The names of at most n characters.
RECURSIVE NamesUpTo(_)
NamesUpTo(n) ==
    IF n = 0 THEN { <<>> }
    ELSE LET shorter == NamesUpTo(n - 1)
         IN shorter \cup { Append(t, c) : t \in shorter, c \in NameChars }

\* The file names a request can carry: the short ones and the stored ones.
FileNameInputs == (NamesUpTo(MaxNameLen) \ { <<>> }) \cup FileNames

\* A variant of InvalidFilename that lets a lone backslash through.
InvalidFilenameNoBackslash(filename) ==
    Includes(filename, <<".", ".">>) \/ Includes(filename, <<"/">>)

\* The directory-traversal guard of the file route.
InvalidFilename(filename) ==
    \/ Includes(filename, <<".", ".">>)
    \/ Includes(filename, <<"/">>)
    \/ Includes(filename, <<"\\">>)

IdleFileCall == [filename |-> <<>>, status |-> 0, served |-> <<>>, effects |-> <<>>]

\* GET /api/files/[filename]: the guard, fileExists, readFile.
FileGet(filename, readOk) ==
    /\ fileCall' =
         IF InvalidFilename(filename)
         THEN [filename |-> filename, status |-> 400, served |-> <<>>,
               effects |-> <<>>]
         ELSE IF filename \notin FileNames
         THEN [filename |-> filename, status |-> 404, served |-> <<>>,
               effects |-> <<"fs.exists">>]
         ELSE IF ~readOk
         THEN [filename |-> filename, status |-> 500, served |-> <<>>,
               effects |-> <<"fs.exists", "fs.read">>]
         ELSE [filename |-> filename, status |-> 200, served |-> filename,
               effects |-> <<"fs.exists", "fs.read">>]
    /\ UNCHANGED <<resetVars, mcp, chatUi, dbVars, compVars, apiCall, storage, sweep, fnCall,
                   commentUi>>

(***************************************************************************)
(* THE CLEANUP SWEEP                                                       *)
(* POST /api/cleanup checks the caller and runs cleanupOldFiles: one       *)
(* readdir, one reading of the clock, and then for every listed name a     *)
(* stat and, for a file older than the retention window, an unlink, both   *)
(* inside one try block per file.  The sweep is cut at its awaits, so that *)
(* uploads and the clock move while it runs.                               *)
(***************************************************************************)

\* FILE_RETENTION_HOURS as the environment sets it.
FileRetentionHours == 1

\* The files found in the directory when the application starts.
SeedFiles ==
    { [name |-> <<"a">>, birthtime |-> 0 - 2],
      [name |-> <<"a", "a">>, birthtime |-> 0 - 1],
      [name |-> <<"a", ".", "a">>, birthtime |-> 0] }

IdleSweep == [pc |-> "idle", status |-> 0, now |-> 0, files |-> {},
              swept |-> FALSE, deleted |-> {}, failed |-> {}, deletedCount |-> 0]

\* The sweep after one file, were an error on that file to end the loop.
AfterFileStops(rec, rest, threw) ==
    [rec EXCEPT !.files = rest,
                !.pc = IF rest = {} \/ threw THEN "stats" ELSE "loop",
                !.swept = (rest = {} \/ threw)]

\* The sweep after one file: the loop goes on to the names that are left,
\* whatever happened to this one.
AfterFile(rec, rest, threw) ==
    [rec EXCEPT !.files = rest,
                !.pc = IF rest = {} THEN "stats" ELSE "loop",
                !.swept = (rest = {})]

\* The checks of the route, ensureStorageDir, readdir and Date.now().
CleanupStart(authorized, readdirOk) ==
    /\ sweep.pc \in {"idle", "done"}
    /\ sweep' =
         IF ~authorized THEN [IdleSweep EXCEPT !.pc = "done", !.status = 401]
         ELSE IF ~readdirOk THEN [IdleSweep EXCEPT !.pc = "done", !.status = 500]
         ELSE AfterFile([IdleSweep EXCEPT !.now = now], FileNames, FALSE)
    /\ UNCHANGED <<resetVars, mcp, chatUi, dbVars, compVars, apiCall, storage, fileCall, fnCall,
                   commentUi>>

\* One turn of the loop: stat, the age against the window, unlink.
CleanupFile(filename, statOk, unlinkOk) ==
    /\ sweep.pc = "loop"
    /\ filename \in sweep.files
    /\ LET rest == sweep.files \ {filename}
           found == { f \in storage : f.name = filename }
       IN IF found = {} \/ ~statOk
          THEN /\ sweep' = AfterFile([sweep EXCEPT !.failed = @ \cup {filename}],
                                     rest, TRUE)
               /\ UNCHANGED storage
          ELSE LET stats == CHOOSE f \in found : TRUE
                   fileAge == sweep.now - stats.birthtime
               IN IF ~(fileAge > FileRetentionHours)
                  THEN /\ sweep' = AfterFile(sweep, rest, FALSE)
                       /\ UNCHANGED storage
                  ELSE IF ~unlinkOk
                  THEN /\ sweep' = AfterFile(
                                     [sweep EXCEPT !.failed = @ \cup {filename}],
                                     rest, TRUE)
                       /\ UNCHANGED storage
                  ELSE /\ sweep' = AfterFile(
                                     [sweep EXCEPT !.deleted = @ \cup {stats},
                                                   !.deletedCount = @ + 1],
                                     rest, FALSE)
                       /\ storage' = storage \ {stats}
    /\ UNCHANGED <<resetVars, mcp, chatUi, dbVars, compVars, apiCall, fileCall, fnCall, commentUi>>

\* getStorageStats and the response of the route.
CleanupRespond(statsOk) ==
    /\ sweep.pc = "stats"
    /\ sweep' = [sweep EXCEPT !.pc = "done",
                              !.status = IF statsOk THEN 200 ELSE 500]
    /\ UNCHANGED <<resetVars, mcp, chatUi, dbVars, compVars, apiCall, storage, fileCall, fnCall,
                   commentUi>>

(***************************************************************************)
(* THE COMMENT FORM OF THE MESSAGE COMPONENT                               *)
(* handleCreateComment posts the comment, and for a question asks for the  *)
(* AI reply.  A fetch is two steps: the handler runs on the server, then   *)
(* the browser goes on with the response, or with the error of the fetch.  *)
(***************************************************************************)
IdleCommentUi == [pc |-> "create", commentId |-> NoId, alerted |-> FALSE]

\* fetch('/api/comments', { method: 'POST', ... }) reaches the server.
UiPostComment(session, messageId, valid, fail) ==
    /\ commentUi.pc = "create"
    /\ apiCall.handler = "none"
    /\ CommentsPost(session, messageId, valid, fail)

\* The browser after the first fetch: a response that is not ok, or a fetch
\* that threw, ends in the alert of the outer catch; otherwise the comments
\* are loaded again, the comment becomes the active one, and a question goes
\* on to the reply.
UiCreated(fetchOk, isQuestion) ==
    /\ commentUi.pc = "create"
    /\ apiCall.handler = "POST /api/comments"
    /\ commentUi' =
         IF ~fetchOk \/ apiCall.status # 200
         THEN [commentUi EXCEPT !.pc = "done", !.alerted = TRUE]
         ELSE [commentUi EXCEPT
                 !.commentId = CHOOSE id \in apiCall.returned : TRUE,
                 !.pc = IF isQuestion THEN "reply" ELSE "done"]
    /\ UNCHANGED <<resetVars, mcp, chatUi, dbVars, compVars, apiCall, fileVars, fnCall>>

\* fetch(`/api/comments/${id}/reply`, { method: 'POST', ... }) reaches the
\* server, with the session of the first fetch.
UiPostReply(outcome, fail) ==
    /\ commentUi.pc = "reply"
    /\ apiCall.handler = "POST /api/comments"
    /\ CommentReply(apiCall.session, commentUi.commentId, outcome, fail)

\* A form that reports a reply that failed as a failure to create the comment.
ReplySettledAlerts(ui, ok) == [ui EXCEPT !.pc = "done", !.alerted = ~ok]

\* The inner try of handleCreateComment: a reply that is ok loads the
\* comments again, one that is not ok is passed over, a fetch that threw is
\* logged.
ReplySettled(ui, ok) == [ui EXCEPT !.pc = "done"]

\* The browser after the second fetch.
UiReplied(fetchOk) ==
    /\ commentUi.pc = "reply"
    /\ apiCall.handler = "POST /api/comments/[id]/reply"
    /\ commentUi' = ReplySettled(commentUi, fetchOk /\ apiCall.status = 200)
    /\ UNCHANGED <<resetVars, mcp, chatUi, dbVars, compVars, apiCall, fileVars, fnCall>>

(***************************************************************************)
(* LIBRARY FUNCTIONS                                                       *)
(* A function of the library is applied to an input; fnCall keeps the      *)
(* input and the result.                                                   *)
(***************************************************************************)
\* No function applied yet; each behaviour applies one function to one input.
IdleFnCall == [fn |-> "none", input |-> <<>>, output |-> <<>>]

\* The lines a reply of the model is made of, each with the tool calls that
\* are written on it: prose, a call, a call without a space after the colon
\* and with empty arguments, a call whose arguments hold a nested object, a
\* call whose arguments are not JSON, a call whose arguments are cut off, and
\* a call whose arguments are spread over three lines.
ReplyLines ==
    { [text |-> <<"x", "s", "x", ".">>, calls |-> <<>>],
      [text |-> <<"T", "s", "x", ".", "x", "s", "{", "a", "}">>,
       calls |-> << [serverName |-> <<"x">>, toolName |-> <<"x">>,
                     arguments |-> <<"{", "a", "}">>] >>],
      [text |-> <<"T", "X", ".", "x", "s", "{", "}">>,
       calls |-> << [serverName |-> <<"X">>, toolName |-> <<"x">>,
                     arguments |-> <<"{", "}">>] >>],
      [text |-> <<"T", "s", "x", ".", "X", "s", "{", "k", "{", "a", "}", "}">>,
       calls |-> << [serverName |-> <<"x">>, toolName |-> <<"X">>,
                     arguments |-> <<"{", "k", "{", "a", "}", "}">>] >>],
      [text |-> <<"T", "s", "x", ".", "x", "s", "{", "x", "}">>, calls |-> <<>>],
      [text |-> <<"T", "s", "x", ".", "x", "s", "{", "k">>, calls |-> <<>>],
      [text |-> <<"T", "s", "a", ".", "x", "s", "{", "n", "a", "n", "}">>,
       calls |-> << [serverName |-> <<"a">>, toolName |-> <<"x">>,
                     arguments |-> <<"{", "a", "}">>] >>] }

\* The text of the lines, one newline between two lines.
RECURSIVE JoinLines(_)
JoinLines(lines) ==
    IF lines = <<>> THEN <<>>
    ELSE IF Len(lines) = 1 THEN lines[1].text
    ELSE lines[1].text \o <<"n">> \o JoinLines(Tail(lines))

\* parseToolCalls applied to a reply.
ParseReply(lines) ==
    /\ fnCall.fn = "none"
    /\ fnCall' = [fn |-> "parseToolCalls", input |-> lines,
                  output |-> ParseToolCalls(JoinLines(lines))]
    /\ UNCHANGED <<resetVars, mcp, chatUi, dbVars, compVars, apiCall, fileVars, commentUi>>

\* The items a content array is made of: two text parts, a text part whose
\* text is empty, a text part whose text is a number, an image part that
\* carries a text all the same, and null.
ContentParts ==
    { [type |-> "text", textIs |-> "string", text |-> <<"x">>],
      [type |-> "text", textIs |-> "string", text |-> <<"X", "s", "x">>],
      [type |-> "text", textIs |-> "string", text |-> <<>>],
      [type |-> "text", textIs |-> "number", text |-> <<>>],
      [type |-> "image_url", textIs |-> "string", text |-> <<"x">>],
      [type |-> "null", textIs |-> "absent", text |-> <<>>] }

\* Array.prototype.join with a separator.
RECURSIVE Join(_, _)
Join(texts, separator) ==
    IF texts = <<>> THEN <<>>
    ELSE IF Len(texts) = 1 THEN texts[1]
    ELSE texts[1] \o separator \o Join(Tail(texts), separator)

\* A variant of getContentAsString without its filter(Boolean).
GetContentAsStringUnfiltered(content) ==
    Join([i \in 1..Len(content) |->
            IF content[i].type = "text" /\ content[i].textIs = "string"
            THEN content[i].text ELSE <<>>],
         <<"s">>)

\* getContentAsString on an array: map, filter(Boolean), join(' ').
GetContentAsString(content) ==
    LET mapped == [i \in 1..Len(content) |->
                     IF content[i].type # "null"
                     THEN IF content[i].type = "text" /\ content[i].textIs # "absent"
                          THEN IF content[i].textIs = "string"
                               THEN content[i].text ELSE <<>>
                          ELSE <<>>
                     ELSE <<>>]
        filtered == SelectSeq(mapped, LAMBDA t : t # <<>>)
    IN Join(filtered, <<"s">>)

FlattenContent(content) ==
    /\ fnCall.fn = "none"
    /\ fnCall' = [fn |-> "getContentAsString", input |-> content,
                  output |-> GetContentAsString(content)]
    /\ UNCHANGED <<resetVars, mcp, chatUi, dbVars, compVars, apiCall, fileVars, commentUi>>

\* An item without an image_url (or imageUrl) key.
NoImage == [url |-> <<>>, mimetype |-> NULL]

\* getMimeTypeFromUrl: the type named by a data URL, else the one of the
\* extension, else image/png.
GetMimeTypeFromUrl(url) ==
    IF Len(url) >= 2 /\ url[1] = "data:" THEN url[2]
    ELSE IF url[Len(url)] = "jpg" THEN "image/jpeg"
    ELSE "image/png"

IsGeminiModel(model) == model # <<>> /\ model[1] = "google/gemini"

\* The model identifiers: a Gemini model, another model, and a model that
\* has the Gemini prefix further on in its name.
ModelIds == { <<"google/gemini", "-pro">>, <<"openai/", "gpt">>,
              <<"x/", "google/gemini">> }

\* A variant of GeminiItem that writes the text of a text part twice.
GeminiItemDoubles(item) ==
    IF item.type = "text" /\ item.text # <<>>
    THEN [item EXCEPT !.text = @ \o @, !.more = FALSE]
    ELSE item

\* The branch for Gemini models, for one item: an image part is rewritten to
\* imageUrl and mimeType, a text part and a file part keep their own keys
\* only, anything else is returned as it is.
GeminiItem(item) ==
    IF item.type = "image_url" /\ item.image_url # NoImage
    THEN [type |-> "image_url", text |-> <<>>, image_url |-> NoImage,
          imageUrl |-> [url |-> item.image_url.url,
                        mimetype |-> GetMimeTypeFromUrl(item.image_url.url)],
          file |-> "none", more |-> FALSE]
    ELSE IF item.type = "text" /\ item.text # <<>>
    THEN [type |-> "text", text |-> item.text, image_url |-> NoImage,
          imageUrl |-> NoImage, file |-> "none", more |-> FALSE]
    ELSE IF item.type = "file" /\ item.file # "none"
    THEN [type |-> "file", text |-> <<>>, image_url |-> NoImage,
          imageUrl |-> NoImage, file |-> "url, filename", more |-> FALSE]
    ELSE item

\* The branch for the other models, for one item: an image part gets its
\* mimetype, anything else is returned as it is.
OtherItem(item) ==
    IF item.type = "image_url" /\ item.image_url # NoImage
    THEN [type |-> "image_url", text |-> <<>>,
          image_url |-> [url |-> item.image_url.url,
                         mimetype |-> GetMimeTypeFromUrl(item.image_url.url)],
          imageUrl |-> NoImage, file |-> "none", more |-> FALSE]
    ELSE item

TransformMessagesForGemini(msgs, model) ==
    [i \in 1..Len(msgs) |->
        IF msgs[i].contentIs # "array" THEN msgs[i]
        ELSE [msgs[i] EXCEPT !.content =
                [j \in 1..Len(@) |-> IF IsGeminiModel(model)
                                     THEN GeminiItem(@[j]) ELSE OtherItem(@[j])]]]

\* The messages of a request: one with a string content, one with a text
\* part and a file part that carry further keys, one with a text part whose
\* text is empty and a part of another type, one with an image part beside a
\* text part, and one with an image part that has been rewritten already.
GeminiMessages ==
    LET Item(type, text, file, more) ==
            [type |-> type, text |-> text, image_url |-> NoImage,
             imageUrl |-> NoImage, file |-> file, more |-> more]
    IN { [role |-> "user", contentIs |-> "string", content |-> <<>>],
         [role |-> "user", contentIs |-> "array",
          content |-> << Item("text", <<"x">>, "none", TRUE),
                         Item("file", <<>>, "url, filename, more", TRUE) >>],
         [role |-> "assistant", contentIs |-> "array",
          content |-> << Item("text", <<>>, "none", TRUE),
                         Item("other", <<"x">>, "none", TRUE),
                         Item("file", <<>>, "none", FALSE) >>],
         [role |-> "user", contentIs |-> "array",
          content |-> << Item("text", <<"x">>, "none", FALSE),
                         [Item("image_url", <<>>, "none", TRUE) EXCEPT
                            !.image_url = [url |-> <<"x", ".", "jpg">>,
                                           mimetype |-> NULL]] >>],
         [role |-> "user", contentIs |-> "array",
          content |-> << [Item("image_url", <<>>, "none", FALSE) EXCEPT
                            !.imageUrl = [url |-> <<"data:", "image/gif">>,
                                          mimetype |-> "image/gif"]] >>] }

TransformMessages(msgs, model) ==
    /\ fnCall.fn = "none"
    /\ fnCall' = [fn |-> "transformMessagesForGemini",
                  input |-> [messages |-> msgs, model |-> model],
                  output |-> TransformMessagesForGemini(msgs, model)]
    /\ UNCHANGED <<resetVars, mcp, chatUi, dbVars, compVars, apiCall, fileVars, commentUi>>

(***************************************************************************)
(* SPECIFICATIONS                                                          *)
(***************************************************************************)
\* The database at the start: ann and bob each have a chat with a message, a
\* comment on it, and a prompt; ann's chat has no title yet.
(***************************************************************************)
(* THE CHAT VIEW                                                           *)
(* sendMessage of the Chat component, cut at its awaits: the prompts       *)
(* fetch of resolvePromptSyntax, the fetch that creates a chat, and the    *)
(* completions fetch with the typewriter.  The input form is disabled      *)
(* while isLoading is set, and sendMessage sets it only after the first    *)
(* two.  A send works with the currentChatId of the render it started in.  *)
(***************************************************************************)
\* The submits whose sends can be in hand at once.
SendIds == {1, 2}

IdleSend == [pc |-> "idle", chatIdToUse |-> NoId]

IdleChatUi == [isLoading |-> FALSE, currentChatId |-> NoId, created |-> {},
               submits |-> 0, sends |-> [s \in SendIds |-> IdleSend]]

\* sendMessage from the point where the content is resolved: a chat is
\* created first when the send knows of none, else the user message is
\* shown, isLoading is set and the completions request goes out.
SendResolved(ui, s) ==
    IF ui.sends[s].chatIdToUse = NoId
    THEN [ui EXCEPT !.sends[s].pc = "createChat"]
    ELSE [ui EXCEPT !.sends[s].pc = "completions", !.isLoading = TRUE]

\* handleSubmit of the input form and the start of sendMessage.
ChatSubmit(s, startsWithSlash) ==
    /\ ~chatUi.isLoading
    /\ chatUi.sends[s].pc \in {"idle", "done"}
    /\ chatUi.submits < MaxSubmits
    /\ LET ui == [chatUi EXCEPT !.submits = @ + 1,
                                !.sends[s] = [IdleSend EXCEPT
                                                !.chatIdToUse = chatUi.currentChatId]]
       IN chatUi' = IF startsWithSlash
                    THEN [ui EXCEPT !.sends[s].pc = "prompts"]
                    ELSE SendResolved(ui, s)
    /\ UNCHANGED <<resetVars, mcp, dbVars, compVars, apiCall, fileVars, fnCall,
                   commentUi>>

\* resolvePromptSyntax after fetch('/api/prompts'): a prompt that is not
\* found ends the send; a failed fetch sends the content as it is.
ChatPromptsFetched(s, found) ==
    /\ chatUi.sends[s].pc = "prompts"
    /\ chatUi' = IF found THEN SendResolved(chatUi, s)
                 ELSE [chatUi EXCEPT !.sends[s].pc = "done"]
    /\ UNCHANGED <<resetVars, mcp, dbVars, compVars, apiCall, fileVars, fnCall,
                   commentUi>>

\* fetch('/api/chats', POST) settles: the new chat becomes the current one
\* and the send goes on, or the send ends.
ChatCreated(s, ok) ==
    /\ chatUi.sends[s].pc = "createChat"
    /\ LET id == Cardinality(chatUi.created) + 1
       IN chatUi' =
            IF ok
            THEN [chatUi EXCEPT !.created = @ \cup {id},
                                !.currentChatId = id,
                                !.isLoading = TRUE,
                                !.sends[s].chatIdToUse = id,
                                !.sends[s].pc = "completions"]
            ELSE [chatUi EXCEPT !.sends[s].pc = "done"]
    /\ UNCHANGED <<resetVars, mcp, dbVars, compVars, apiCall, fileVars, fnCall,
                   commentUi>>

\* fetch('/api/completions') settles and the reply or the error is shown;
\* finally isLoading is cleared.
ChatCompleted(s) ==
    /\ chatUi.sends[s].pc = "completions"
    /\ chatUi' = [chatUi EXCEPT !.isLoading = FALSE, !.sends[s].pc = "done"]
    /\ UNCHANGED <<resetVars, mcp, dbVars, compVars, apiCall, fileVars, fnCall,
                   commentUi>>


InitDb ==
    /\ chats = { [id |-> 1, userId |-> "ann", title |-> NoTitle],
                 [id |-> 2, userId |-> "bob", title |-> <<"x">>] }
    /\ messages = { [id |-> 3, chatId |-> 1, role |-> "assistant", content |-> <<"x">>],
                    [id |-> 4, chatId |-> 2, role |-> "user", content |-> <<"x">>] }
    /\ comments = { [id |-> 5, messageId |-> 3, userId |-> "ann", aiResponse |-> <<>>],
                    [id |-> 6, messageId |-> 4, userId |-> "bob", aiResponse |-> <<>>] }
    /\ prompts = { [id |-> 7, userId |-> "ann", title |-> <<"x">>],
                   [id |-> 8, userId |-> "bob", title |-> <<"x">>] }
    /\ idSeq = InitialRows

InitCompletions ==
    /\ env \in Envs
    /\ activeConnections = {}
    /\ completion = IdleCompletion

InitOthers ==
    /\ apiCall = IdleApiCall
    /\ storage = {}
    /\ fileCall = IdleFileCall
    /\ sweep = IdleSweep
    /\ fnCall = IdleFnCall
    /\ commentUi = IdleCommentUi
    /\ mcp = IdleMcp
    /\ chatUi = IdleChatUi

\* The application at rest, in one environment.
QuietApp ==
    /\ InitDb
    /\ InitCompletions
    /\ env = [apiKey |-> TRUE, mcpServers |-> {}]
    /\ InitOthers

InitReset ==
    /\ passwordHash = [u \in UserIds |-> BcryptHash("initial")]
    /\ passwordResetTokens = {}
    /\ now = 0
    /\ tokenSeq = 0
    /\ forgotReq = [f \in ForgotIds |-> IdleForgot]
    /\ confirmReq = [r \in ConfirmIds |-> IdleConfirm]
    /\ applied = [r \in ConfirmIds |-> [failAt |-> -1, writes |-> {}]]

\* The password reset on its own: the rest of the application at rest.
InitQuiet == InitReset /\ QuietApp

\* The application in any environment.
InitAny == InitReset /\ InitDb /\ InitCompletions /\ InitOthers

\* The application in an environment without tool servers.
InitApi == InitAny /\ env.mcpServers = {}

\* The forgot-password handler, one action per await.
ForgotStep(f) ==
    \/ \E e \in EmailInputs : ForgotStart(f, e)
    \/ \E dbOk \in BOOLEAN : ForgotFindUser(f, dbOk)
    \/ \E dbOk \in BOOLEAN : ForgotDeleteMany(f, dbOk)
    \/ \E dbOk \in BOOLEAN : ForgotCreate(f, dbOk)
    \/ \E emailOk \in BOOLEAN : ForgotSendEmail(f, emailOk)

\* The reset-password handler on a token that has not expired.
ConfirmStep(r) ==
    \/ \E tok \in TokenInputs, pw \in Passwords : ConfirmStart(r, tok, pw)
    \/ \E dbOk \in BOOLEAN : ConfirmFind(r, dbOk)
    \/ \E dbFail \in 0..2 : ConfirmTransaction(r, dbFail)

\* Overlapping forgot-password requests, and one reset-password request; no
\* time passes.
NextForgot ==
    \/ \E f \in ForgotIds : ForgotStep(f)
    \/ ConfirmStep(1)

SpecForgot == InitQuiet /\ [][NextForgot]_vars

\* One forgot-password request, overlapping reset-password requests, and the
\* clock.
NextConfirm ==
    \/ ForgotStep(1)
    \/ \E r \in ConfirmIds : ConfirmStep(r)
    \/ \E r \in ConfirmIds, dbOk \in BOOLEAN : ConfirmDeleteExpired(r, dbOk)
    \/ Tick

SpecConfirm == InitQuiet /\ [][NextConfirm]_vars

\* Completions requests, one after the other.
NextCompletions ==
    \/ \E session \in Sessions, chatId \in ChatIdInputs,
          body \in CompletionBodies : CompletionsStart(session, chatId, body)
    \/ \E dbOk \in BOOLEAN : CompletionsContext(dbOk)
    \/ \E probeOk, connectOk, listOk \in BOOLEAN :
          CompletionsEnhance(probeOk, connectOk, listOk)
    \/ \E outcome \in GatewayOutcomes(DraftReplies) : CompletionsSend(outcome)
    \/ \E probeOk, connectOk, callOk \in BOOLEAN :
          CompletionsToolCall(probeOk, connectOk, callOk)
    \/ \E outcome \in GatewayOutcomes(SummaryReplies) : CompletionsSummary(outcome)
    \/ \E dbOk \in BOOLEAN : SaveFindChat(dbOk)
    \/ \E dbOk \in BOOLEAN : SaveUserMessage(dbOk)
    \/ \E dbOk \in BOOLEAN : SaveTitle(dbOk)
    \/ \E dbOk \in BOOLEAN : SaveAssistantMessage(dbOk)

SpecCompletions == InitAny /\ [][NextCompletions]_vars

\* The chat, message, prompt, comment and upload handlers, one request after
\* the other.
NextApi ==
    \/ \E session \in Sessions, fail \in 0..1 : ChatsGet(session, fail)
    \/ \E session \in Sessions, title \in TextInputs, fail \in 0..1 :
          ChatsPost(session, title, fail)
    \/ \E session \in Sessions, fail \in 0..1 : ChatsDeleteAll(session, fail)
    \/ \E session \in Sessions, id \in IdInputs(chats), fail \in 0..2 :
          ChatDelete(session, id, fail)
    \/ \E session \in Sessions, id \in IdInputs(chats), title \in TextInputs,
          fail \in 0..2 : ChatPatch(session, id, title, fail)
    \/ \E session \in Sessions, id \in IdInputs(chats), fail \in 0..2 :
          MessagesGet(session, id, fail)
    \/ \E session \in Sessions, id \in IdInputs(chats), role \in MessageRoles,
          content \in UserTexts, fail \in 0..3 :
          MessagesPost(session, id, role, content, fail)
    \/ \E session \in Sessions, fail \in 0..1 : PromptsGet(session, fail)
    \/ \E session \in Sessions, title \in ContentInputs, content \in ContentInputs,
          fail \in 0..1 : PromptsPost(session, title, content, fail)
    \/ \E session \in Sessions, fail \in 0..1 : PromptsDeleteAll(session, fail)
    \/ \E session \in Sessions, id \in IdInputs(prompts), fail \in 0..2 :
          PromptDelete(session, id, fail)
    \/ \E session \in Sessions, id \in IdInputs(prompts), title \in ContentInputs,
          content \in ContentInputs, fail \in 0..2 :
          PromptPatch(session, id, title, content, fail)
    \/ \E session \in Sessions, id \in IdInputs(messages) \cup {NoId}, fail \in 0..2 :
          CommentsGet(session, id, fail)
    \/ \E session \in Sessions, id \in IdInputs(messages) \cup {NoId}, valid \in BOOLEAN,
          fail \in 0..2 : CommentsPost(session, id, valid, fail)
    \/ \E session \in Sessions, id \in IdInputs(comments),
          outcome \in GatewayOutcomes(SummaryReplies), fail \in 0..3 :
          CommentReply(session, id, outcome, fail)
    \/ \E session \in Sessions, file \in UploadInputs, fail \in 0..1 :
          Upload(session, file, fail)

SpecApi == InitApi /\ [][NextApi]_vars

\* Uploads and requests for files.
NextFiles ==
    \/ \E session \in Sessions, file \in UploadInputs, fail \in 0..1 :
          Upload(session, file, fail)
    \/ \E filename \in FileNameInputs, readOk \in BOOLEAN : FileGet(filename, readOk)

SpecFiles == InitQuiet /\ [][NextFiles]_vars

\* Message persistence: a completions request next to requests of ann that
\* post a message to a chat, with a database that does not fail them.
NextPersist ==
    \/ NextCompletions
    \/ \E id \in IdsOf(chats), role \in {"user", "assistant"},
          content \in UserTexts \ { <<>> } :
          MessagesPost("ann", id, role, content, 0)

SpecPersist == InitApi /\ [][NextPersist]_vars

\* The functions of the library, applied to one input after the other.
NextLib ==
    \/ \E n \in 1..MaxLines : \E lines \in [1..n -> ReplyLines] : ParseReply(lines)
    \/ \E n \in 0..MaxParts : \E content \in [1..n -> ContentParts] :
          FlattenContent(content)
    \/ \E n \in 1..MaxMessages : \E msgs \in [1..n -> GeminiMessages] :
          \E model \in ModelIds : TransformMessages(msgs, model)

SpecLib == InitQuiet /\ [][NextLib]_vars

\* The handler has returned; text is selected and the form is opened again.
UiAgain ==
    /\ commentUi.pc = "done"
    /\ commentUi' = IdleCommentUi
    /\ apiCall' = [IdleApiCall EXCEPT !.writes = apiCall.writes]
    /\ UNCHANGED <<resetVars, mcp, chatUi, dbVars, compVars, fileVars, fnCall>>

\* The comment form, from the first fetch to the end of the handler.
NextComment ==
    \/ UiAgain
    \/ \E session \in Sessions, messageId \in IdInputs(messages),
          valid \in BOOLEAN, fail \in 0..2 :
          UiPostComment(session, messageId, valid, fail)
    \/ \E fetchOk, isQuestion \in BOOLEAN : UiCreated(fetchOk, isQuestion)
    \/ \E outcome \in GatewayOutcomes(SummaryReplies), fail \in 0..3 :
          UiPostReply(outcome, fail)
    \/ \E fetchOk \in BOOLEAN : UiReplied(fetchOk)

SpecComment == InitApi /\ [][NextComment]_vars

\* The application at rest over a storage directory that holds files already.
InitCleanup ==
    /\ InitReset
    /\ InitDb
    /\ InitCompletions
    /\ env = [apiKey |-> TRUE, mcpServers |-> {}]
    /\ apiCall = IdleApiCall
    /\ storage \in SUBSET SeedFiles
    /\ fileCall = IdleFileCall
    /\ sweep = IdleSweep
    /\ fnCall = IdleFnCall
    /\ commentUi = IdleCommentUi
    /\ mcp = IdleMcp
    /\ chatUi = IdleChatUi

\* Cleanup requests, with uploads arriving and the clock moving meanwhile.
NextCleanup ==
    \/ \E authorized \in BOOLEAN, readdirOk \in BOOLEAN :
          CleanupStart(authorized, readdirOk)
    \/ \E filename \in sweep.files, statOk \in BOOLEAN, unlinkOk \in BOOLEAN :
          CleanupFile(filename, statOk, unlinkOk)
    \/ \E statsOk \in BOOLEAN : CleanupRespond(statsOk)
    \/ \E file \in UploadInputs : Upload("ann", file, 0)
    \/ Tick

SpecCleanup == InitCleanup /\ [][NextCleanup]_vars

\* Lookups of tool-server clients that overlap, and servers that exit.
NextMcp ==
    \/ \E l \in LookupIds, name \in McpServerNames : McpLookupStart(l, name)
    \/ \E l \in LookupIds, ok \in BOOLEAN : McpProbeSettled(l, ok)
    \/ \E l \in LookupIds, ok \in BOOLEAN : McpConnectSettled(l, ok)
    \/ \E client \in mcp.running : McpProcessExits(client)

SpecMcp == InitQuiet /\ [][NextMcp]_vars

\* A user who submits messages in the chat view, as fast as the form lets them.
NextChat ==
    \/ \E s \in SendIds, startsWithSlash \in BOOLEAN : ChatSubmit(s, startsWithSlash)
    \/ \E s \in SendIds, found \in BOOLEAN : ChatPromptsFetched(s, found)
    \/ \E s \in SendIds, ok \in BOOLEAN : ChatCreated(s, ok)
    \/ \E s \in SendIds : ChatCompleted(s)

SpecChat == InitQuiet /\ [][NextChat]_vars

(***************************************************************************)
(* PROPERTIES OF THE PASSWORD RESET                                        *)
(***************************************************************************)

\* C1: a reset token changes a password at most once: among the confirm
\* requests that present the same token, at most one is answered 200.
C1_TokenUsedAtMostOnce ==
    \A r, q \in ConfirmIds :
        (r # q /\ confirmReq[r].status = 200 /\ confirmReq[q].status = 200)
            => confirmReq[r].token # confirmReq[q].token

\* C5: the two writes of a reset-password transaction (the user's password
\* hash, the token's used flag) take effect together or not at all, also
\* when a statement of the transaction fails.
C5_TransactionAtomic ==
    \A r \in ConfirmIds :
        /\ ("passwordHash" \in applied[r].writes) <=> ("used" \in applied[r].writes)
        /\ confirmReq[r].status = 200 => applied[r].writes = {"passwordHash", "used"}
        /\ (confirmReq[r].pc = "done" /\ confirmReq[r].status # 200)
              => applied[r].writes = {}

\* C5 witness: a transaction failed at its second statement (the token row
\* was gone) after the first statement had run.
C5_Witness ==
    \E r \in ConfirmIds : applied[r].failAt = 2 /\ confirmReq[r].status = 500

ForgotInProgress == \E f \in ForgotIds : forgotReq[f].pc \notin {"idle", "done"}

TokensOf(u) == { t \in passwordResetTokens : t.userId = u }

\* C6: whenever no forgot-password request is in progress, a user has at
\* most one stored reset token, also after overlapping requests.
C6_AtMostOneToken ==
    ~ForgotInProgress => \A u \in UserIds : Cardinality(TokensOf(u)) <= 1

\* A finished forgot-password request whose body carried a non-empty email.
ForgotAnswered(f) == forgotReq[f].pc = "done" /\ forgotReq[f].status # 400

C11_ExpiredRefusedAndDeleted ==
    \A r \in ConfirmIds :
        confirmReq[r].expired =>
            /\ applied[r].writes = {}
            /\ confirmReq[r].pc = "done" =>
                  /\ confirmReq[r].status = 400
                  /\ FindToken(confirmReq[r].token) = {}

\* C11 amended: such a request never changes the password; it is answered 400
\* with the token record gone unless the delete of the record threw, and then
\* it is answered 500.
C11_ExpiredRefusedUnlessDeleteThrew ==
    \A r \in ConfirmIds :
        confirmReq[r].expired =>
            /\ applied[r].writes = {}
            /\ confirmReq[r].pc = "done" =>
                  IF confirmReq[r].deleteThrew
                  THEN confirmReq[r].status = 500
                  ELSE /\ confirmReq[r].status = 400
                       /\ FindToken(confirmReq[r].token) = {}

\* An expired token was presented, refused with 400 and deleted, and the
\* password of its user is still the initial one.
C11_Witness ==
    \E r \in ConfirmIds :
        /\ confirmReq[r].expired
        /\ confirmReq[r].pc = "done"
        /\ confirmReq[r].status = 400
        /\ ~confirmReq[r].deleteThrew
        /\ FindToken(confirmReq[r].token) = {}
        /\ \A u \in UserIds : passwordHash[u] = BcryptHash("initial")

(***************************************************************************)
(* PROPERTIES OF THE COMPLETIONS HANDLER                                   *)
(***************************************************************************)
\* The reply a finished request owes its caller: the draft when no summary
\* was asked for, the summary when one came, the cleaned draft otherwise.
ExpectedReply(rec) ==
    IF Len(rec.gatewayLog) < 2 THEN rec.draft
    ELSE IF rec.gatewayLog[2].outcome.kind = "reply"
    THEN rec.gatewayLog[2].outcome.content
    ELSE CleanedContent(rec.draft)

SummaryFailed(rec) ==
    /\ Len(rec.gatewayLog) = 2
    /\ rec.gatewayLog[2].outcome.kind # "reply"

\* C2: a request whose tool calls were executed and whose summary call to
\* the gateway failed is answered 200 with the cleaned draft as content, and
\* no tool call was executed a second time.
C2_SummaryFailureFallsBack ==
    (completion.pc = "done" /\ SummaryFailed(completion)) =>
        /\ completion.status = 200
        /\ completion.content = CleanedContent(completion.draft)
        /\ \A k, l \in 1..Len(completion.toolLog) :
              k # l => completion.toolLog[k].call # completion.toolLog[l].call

\* The calls of a request whose server is configured.
ConfiguredCalls(rec) ==
    { i \in 1..Len(rec.toolCalls) : FindConfig(rec.toolCalls[i].serverName) # {} }

\* C3: there is one result entry per parsed tool call, in call order; entry
\* i is a failure exactly when call i named an unknown server, could not
\* connect or threw, whatever happened to the other calls; every call to a
\* configured server was invoked, once and in order; and once the loop is
\* over the summary request is sent.
C3_FailuresIsolated ==
    LET rec == completion
        n == Len(rec.toolCalls)
        over == rec.pc \notin {"send", "tools"} /\ n > 0
    IN /\ Len(rec.toolResults) <= n
       /\ over => Len(rec.toolResults) = n
       /\ \A i \in 1..Len(rec.toolResults) :
            /\ rec.toolResults[i].success <=>
                 \E k \in 1..Len(rec.toolLog) :
                    /\ rec.toolLog[k].call = i
                    /\ rec.toolLog[k].connected /\ rec.toolLog[k].returned
            /\ Cardinality({ k \in 1..Len(rec.toolLog) : rec.toolLog[k].call = i })
                 = IF i \in ConfiguredCalls(rec) THEN 1 ELSE 0
       /\ \A k, l \in 1..Len(rec.toolLog) :
            k < l => rec.toolLog[k].call < rec.toolLog[l].call
       /\ (over /\ rec.pc # "summary") =>
             /\ Len(rec.gatewayLog) = 2
             /\ rec.gatewayLog[2].call = "summary"

\* A request whose first call failed and whose second call succeeded, with
\* the summary request sent.
C3_Witness ==
    /\ Len(completion.toolResults) = 2
    /\ ~completion.toolResults[1].success
    /\ completion.toolResults[2].success
    /\ Len(completion.gatewayLog) = 2

\* C9: a request in which a database write of the persistence step failed is
\* answered 200 with the assistant reply as content.
C9_PersistFailureSwallowed ==
    (completion.pc = "done" /\ completion.saveFailed) =>
        /\ completion.status = 200
        /\ completion.error = ""
        /\ completion.content = ExpectedReply(completion)

\* A request whose user message was stored and whose assistant message was
\* not, answered 200.
C9_Witness ==
    /\ completion.pc = "done" /\ completion.saveFailed
    /\ completion.status = 200
    /\ \E m \in messages : m.chatId = completion.chatId /\ m.role = "user"
    /\ ~\E m \in messages : m.chatId = completion.chatId /\ m.role = "assistant"

ForeignChat(chatId, session) ==
    \E c \in chats : c.id = chatId /\ c.userId # session

\* C4: a request of a signed-in user that names a chat of another user is not
\* answered with success, and nothing of that chat is read for it.
C4_CrossTenantRefused ==
    (/\ completion.session # NULL
     /\ ForeignChat(completion.chatId, completion.session)) =>
        /\ completion.commentsRead = {}
        /\ completion.status # 200

\* C8: a request for a file name that contains `..`, `/` or `\` is answered
\* 400 and makes no file-system call.
C8_TraversalRejected ==
    LET f == fileCall.filename
    IN (\/ Includes(f, <<".", ".">>)
        \/ Includes(f, <<"/">>)
        \/ Includes(f, <<"\\">>)) =>
           /\ fileCall.status = 400
           /\ fileCall.effects = <<>>
           /\ fileCall.served = <<>>

\* A name with a backslash, without a slash and without two dots, refused.
C8_Witness ==
    /\ fileCall.status = 400
    /\ Includes(fileCall.filename, <<"\\">>)
    /\ ~Includes(fileCall.filename, <<"/">>)
    /\ ~Includes(fileCall.filename, <<".", ".">>)

\* C10: a request without a session to a chat, chat-message, prompt,
\* comment, comment-reply or upload handler is answered 401 without a
\* database, storage or gateway call, and with nothing returned or written.
C10_UnauthorizedFirst ==
    (apiCall.handler # "none" /\ apiCall.session = NULL) =>
        /\ apiCall.status = 401
        /\ apiCall.effects = <<>>
        /\ apiCall.returned = {}
        /\ apiCall.changed = {}

\* A reply to an existing comment asked for without a session, after a
\* request that wrote.
C10_Witness ==
    /\ apiCall.handler = "POST /api/comments/[id]/reply"
    /\ apiCall.session = NULL
    /\ apiCall.named \in IdsOf(comments)
    /\ apiCall.status = 401
    /\ apiCall.writes > 0

\* C12: a successful delete of a chat by its owner removes the chat, its
\* messages and the comments on those messages, and leaves every other chat,
\* message, comment and prompt as it was.
C12_DeleteCascadesAndNothingElse ==
    [][(/\ apiCall'.handler = "DELETE /api/chats/[id]"
        /\ apiCall'.status = 200
        /\ apiCall'.writes # apiCall.writes) =>
          LET id == apiCall'.named
              ofChat == { m \in messages : m.chatId = id }
              onChat == { c \in comments : \E m \in ofChat : m.id = c.messageId }
          IN /\ chats' = { c \in chats : c.id # id }
             /\ messages' = messages \ ofChat
             /\ comments' = comments \ onChat
             /\ \A m \in messages' : m.chatId # id
             /\ \A c \in comments' : \E m \in messages' : m.id = c.messageId
             /\ prompts' = prompts]_vars

\* Chat 1, which had message 3 and comment 5, was deleted by its owner; the
\* chat, the message and the comment of the other user are still there.
C12_Witness ==
    /\ apiCall.handler = "DELETE /api/chats/[id]"
    /\ apiCall.status = 200
    /\ apiCall.named = 1
    /\ apiCall.changed = {1, 3, 5}
    /\ IdsOf(chats) = {2}
    /\ IdsOf(messages) = {4}
    /\ IdsOf(comments) = {6}

\* C13: message persistence never replaces a title that is set.
C13_TitleSetOnlyWhileUnset ==
    [][\A c \in chats : \A d \in chats' :
          (c.id = d.id /\ c.title # NoTitle) => d.title = c.title]_vars

\* C17: while and after the AI reply to a comment that the form has created
\* fails, the comment is stored without an AI response and the form has not
\* reported a failure.
C17_ReplyFailureKeepsComment ==
    (/\ commentUi.pc \in {"reply", "done"}
     /\ apiCall.handler = "POST /api/comments/[id]/reply"
     /\ apiCall.status # 200) =>
        /\ \E c \in comments : /\ c.id = commentUi.commentId
                               /\ c.aiResponse = <<>>
        /\ ~commentUi.alerted

\* The form is through: the comment was created, the gateway call of the
\* reply failed and the handler answered 500.
C17_Witness ==
    /\ commentUi.pc = "done"
    /\ commentUi.commentId \in IdsOf(comments)
    /\ apiCall.handler = "POST /api/comments/[id]/reply"
    /\ apiCall.status = 500
    /\ apiCall.effects = <<"db.read", "db.read", "llm">>
    /\ ~commentUi.alerted

(***************************************************************************)
(* PROPERTIES OF THE LIBRARY FUNCTIONS                                     *)
(***************************************************************************)
\* The tool calls written on the lines, in the order of the text.
RECURSIVE PresentCalls(_)
PresentCalls(lines) ==
    IF lines = <<>> THEN <<>>
    ELSE lines[1].calls \o PresentCalls(Tail(lines))

\* C14: of a reply whose calls have arguments that are a flat JSON object or
\* that JSON.parse refuses, the refused calls are dropped, each on its own,
\* and every other call is returned.
C14_UnparsableDroppedAlone ==
    LET Nested(line) == Includes(line.text, <<"k", "{">>)
    IN (/\ fnCall.fn = "parseToolCalls"
        /\ \A i \in 1..Len(fnCall.input) : ~Nested(fnCall.input[i])) =>
           fnCall.output = PresentCalls(fnCall.input)

\* C15: of a reply whose calls all have a JSON object, nested at most one
\* level, as arguments, the extraction returns exactly the calls written in
\* it, in the order of the text, each with its server, its tool and its
\* arguments, and nothing from the prose.
C15_ExactlyTheCallsPresent ==
    LET Unparsable(line) == line.calls = <<>> /\ line.text[1] = "T"
    IN (/\ fnCall.fn = "parseToolCalls"
        /\ \A i \in 1..Len(fnCall.input) : ~Unparsable(fnCall.input[i])) =>
           fnCall.output = PresentCalls(fnCall.input)

\* C18: when a cleanup sweep has gone through its listing, every file left in
\* the directory that is older than the retention window at the time of the
\* sweep is one whose stat or unlink failed (so an error on one file did not
\* keep the sweep from the others), and every file the sweep deleted was older
\* than the window.
C18_SweepDeletesTheOldOnly ==
    sweep.swept =>
       /\ \A f \in storage :
             sweep.now - f.birthtime > FileRetentionHours => f.name \in sweep.failed
       /\ \A d \in sweep.deleted :
             /\ sweep.now - d.birthtime > FileRetentionHours
             /\ d \notin storage

\* A finished sweep that deleted one old file, failed on another, which is
\* still there, and left a file that is exactly as old as the window.
C18_Witness ==
    /\ sweep.swept
    /\ sweep.deleted # {}
    /\ \E f \in storage :
          f.name \in sweep.failed /\ sweep.now - f.birthtime > FileRetentionHours
    /\ \E g \in storage : sweep.now - g.birthtime = FileRetentionHours

\* C19, as stated: flattening a content array gives the texts of its parts of
\* type text, in their order, joined by single spaces; the other parts add
\* nothing.
C19_TextsJoinedBySpaces ==
    fnCall.fn = "getContentAsString" =>
       LET textParts == SelectSeq(fnCall.input,
                           LAMBDA p : p.type = "text" /\ p.textIs = "string")
       IN fnCall.output =
             Join([i \in 1..Len(textParts) |-> textParts[i].text], <<"s">>)

\* C19, amended: flattening a content array gives the texts of its parts of
\* type text whose text is a string that is not empty, in their order, joined
\* by single spaces; the other parts add nothing, not even a separator.
C19_NonEmptyTextsJoinedBySpaces ==
    fnCall.fn = "getContentAsString" =>
       LET textParts == SelectSeq(fnCall.input,
                           LAMBDA p : /\ p.type = "text"
                                      /\ p.textIs = "string"
                                      /\ p.text # <<>>)
       IN fnCall.output =
             Join([i \in 1..Len(textParts) |-> textParts[i].text], <<"s">>)

\* An array of a text part, an image part and another text part, flattened to
\* the two texts with one space between them.
C19_Witness ==
    /\ fnCall.fn = "getContentAsString"
    /\ Len(fnCall.input) = 3
    /\ fnCall.input[1].type = "text" /\ fnCall.input[1].text = <<"x">>
    /\ fnCall.input[2].type = "image_url"
    /\ fnCall.input[3].type = "text" /\ fnCall.input[3].text = <<"X", "s", "x">>
    /\ fnCall.output = <<"x", "s", "X", "s", "x">>

\* C20: for a message list without image parts and any model identifier, the
\* transformer applied to its own output returns that output.
C20_TransformerIdempotent ==
    (/\ fnCall.fn = "transformMessagesForGemini"
     /\ \A i \in 1..Len(fnCall.input.messages) :
           \A j \in 1..Len(fnCall.input.messages[i].content) :
              fnCall.input.messages[i].content[j].type # "image_url")
    => TransformMessagesForGemini(fnCall.output, fnCall.input.model) = fnCall.output

\* A list without image parts, given with a Gemini model, that the transformer
\* changed: the further keys of its text part are gone.
C20_Witness ==
    /\ fnCall.fn = "transformMessagesForGemini"
    /\ IsGeminiModel(fnCall.input.model)
    /\ \A i \in 1..Len(fnCall.input.messages) :
          \A j \in 1..Len(fnCall.input.messages[i].content) :
             fnCall.input.messages[i].content[j].type # "image_url"
    /\ fnCall.output # fnCall.input.messages
    /\ \E i \in 1..Len(fnCall.input.messages) :
          /\ fnCall.input.messages[i].contentIs = "array"
          /\ fnCall.input.messages[i].content[1].more
          /\ ~fnCall.output[i].content[1].more

\* C21: when two lookups of the same server both found the map empty and both
\* connected, each has a client, the map holds one connection for the server,
\* and every process spawned for the server that is still running is the one
\* the map refers to.
C21_FirstConnectRaceBenign ==
    \A l \in LookupIds : \A k \in LookupIds \ {l} :
       (/\ mcp.lookups[l].pc = "done" /\ mcp.lookups[k].pc = "done"
        /\ mcp.lookups[l].first /\ mcp.lookups[k].first
        /\ mcp.lookups[l].name = mcp.lookups[k].name
        /\ ~mcp.lookups[l].error /\ ~mcp.lookups[k].error)
       => /\ mcp.lookups[l].result # NoClient
          /\ Cardinality(EntriesOf(mcp.conns, mcp.lookups[l].name)) = 1
          /\ \A p \in EntriesOf(mcp.spawned, mcp.lookups[l].name) :
                p.client \in mcp.running => p \in mcp.conns

\* C26: a lookup whose probe failed makes one connection attempt; when it
\* ends in success the map holds the new client under the name, and when it
\* ends in failure the map holds no entry under the name.
C26_DeadConnectionRecreatedOnce ==
    [][\A l \in LookupIds :
         (/\ mcp.lookups[l].probeFailed
          /\ mcp.lookups[l].pc = "connecting"
          /\ mcp'.lookups[l].pc = "done")
         => /\ mcp'.lookups[l].attempts = 1
            /\ IF mcp'.lookups[l].error
               THEN EntriesOf(mcp'.conns, mcp.lookups[l].name) = {}
               ELSE EntriesOf(mcp'.conns, mcp.lookups[l].name) =
                       { [name |-> mcp.lookups[l].name,
                          client |-> mcp'.lookups[l].result] }]_vars

\* C27: for a server none of whose probes failed and none of whose processes
\* exited, one process at most has been spawned, and every lookup that has
\* returned a client returned the one the map holds.
C27_ConnectedOnceAndReused ==
    \A name \in McpServerNames :
       (/\ name \notin mcp.probeFailures
        /\ \A p \in EntriesOf(mcp.spawned, name) : p.client \in mcp.running)
       => /\ Cardinality(EntriesOf(mcp.spawned, name)) <= 1
          /\ \A l \in LookupIds :
                (/\ mcp.lookups[l].pc = "done"
                 /\ mcp.lookups[l].name = name
                 /\ ~mcp.lookups[l].error)
                => [name |-> name, client |-> mcp.lookups[l].result] \in mcp.conns

\* C22: every comment a completions request reads into its system prompt
\* hangs on a message of a chat that the user of the session owns; a request
\* without a session reads none.
C22_CommentsOnlyFromOwnChats ==
    \A id \in completion.commentsRead :
       \E c \in comments : \E m \in messages : \E ch \in chats :
          /\ c.id = id
          /\ m.id = c.messageId
          /\ ch.id = m.chatId
          /\ ch.userId = completion.session

\* C23: a request whose user message has been stored does not finish without
\* storing the assistant message in the same chat.
C23_PairPersisted ==
    [][(/\ completion.pc \in {"saveTitle", "saveAssistant"}
        /\ completion.last.role = "user"
        /\ completion'.pc = "done")
       => \E m \in messages' \ messages :
             m.role = "assistant" /\ m.chatId = completion.chatId]_vars

\* C24: a request whose system prompt advertised no tools invokes no tool,
\* sends no second request to the gateway, and answers with the reply of the
\* model as it came.
C24_ToolPathOnlyWhenAdvertised ==
    ~completion.advertised =>
       /\ completion.toolLog = <<>>
       /\ \A i \in 1..Len(completion.gatewayLog) :
             completion.gatewayLog[i].call # "summary"
       /\ completion.status = 200 => completion.content = completion.draft

\* C25: once tool calls have been extracted from a draft, the cleaned draft
\* holds nothing of the markup of a call: no marker, no brace, no argument.
C25_CleanedDraftHasNoMarkup ==
    completion.toolCalls # <<>> =>
       LET cleaned == CleanedContent(completion.draft)
       IN \A i \in 1..Len(cleaned) : cleaned[i] \notin {"T", "{", "}", "a", "k"}

\* C29: the chat view has one send in hand at most, between its submit and
\* its end; it never has two completions requests out at once and it never
\* creates a second chat.
C29_OneSendAtATime ==
    /\ Cardinality({ s \in SendIds : chatUi.sends[s].pc \notin {"idle", "done"} }) <= 1
    /\ Cardinality({ s \in SendIds : chatUi.sends[s].pc = "completions" }) <= 1
    /\ Cardinality(chatUi.created) <= 1

\* C28: the steps of a completions request are taken in the order enhance,
\* transform, send, detect images, handle tool calls, persist, each once at
\* most; and once persisting has begun neither the steps nor the content of
\* the reply change any more.
C28_StepsInFixedOrder ==
    [][LET Rank(step) == CASE step = "enhance" -> 1
                           [] step = "transform" -> 2
                           [] step = "send" -> 3
                           [] step = "detect" -> 4
                           [] step = "tools" -> 5
                           [] step = "persist" -> 6
       IN /\ \A i \in 1..Len(completion'.steps) : \A j \in 1..Len(completion'.steps) :
                i < j => Rank(completion'.steps[i]) < Rank(completion'.steps[j])
          /\ completion.pc \in {"saveFind", "saveUser", "saveTitle", "saveAssistant"}
                => /\ completion'.content = completion.content
                   /\ completion'.steps = completion.steps
          /\ messages' # messages \/ chats' # chats
                => /\ completion.steps # <<>>
                   /\ completion.steps[Len(completion.steps)] = "persist"]_vars

\* A request that has gone through all six steps and has stored its two
\* messages.
C28_Witness ==
    /\ completion.pc = "done"
    /\ completion.status = 200
    /\ completion.steps = <<"enhance", "transform", "send", "detect", "tools", "persist">>
    /\ completion.toolLog # <<>>
    /\ ~completion.saveFailed
    /\ \E m \in messages : m.id > InitialRows /\ m.role = "assistant"

\* C30: whenever a completions request creates a message or changes a chat,
\* it carries a session, the chat it names is a chat of that user, the new
\* messages are messages of that chat and no other chat has changed.
C30_StoresOnlyInOwnChat ==
    [][(messages' # messages \/ chats' # chats)
       => /\ completion.session # NULL
          /\ \E ch \in chats : ch.id = completion.chatId /\ ch.userId = completion.session
          /\ \A m \in messages' \ messages : m.chatId = completion.chatId
          /\ \A ch \in chats' \ chats : ch.id = completion.chatId]_vars

\* A request of ann that named the chat of bob, was answered, went into
\* saveMessagesToDatabase, and left the tables as they were.
C30_Witness ==
    /\ completion.pc = "done"
    /\ completion.status = 200
    /\ completion.session = "ann"
    /\ completion.chatId = 2
    /\ completion.last.role = "user"
    /\ completion.steps # <<>>
    /\ completion.steps[Len(completion.steps)] = "persist"
    /\ ~completion.saveFailed
    /\ \A m \in messages : m.id <= InitialRows
    /\ \A ch \in chats : ch.id = 2 => ch.title = <<"x">>

====
